---- MODULE Spec2Model ----
(***************************************************************************)
(* A model of paypal_rest's API client (src/paypal_rest/client.py): the    *)
(* date-window generator _iter_date_params, the pager _iter_pages, the two *)
(* methods built on them, iter_transactions and get_transaction, and       *)
(* get_subscription with its one request; and of what stands around it:    *)
(* PayPalSession.request, _get_json and its                                *)
(* error log, the field selectors, the Transaction view                    *)
(* (src/paypal_rest/transaction.py) and the exception hook of the command  *)
(* line tools (src/paypal_rest/cliutil.py), each with a specification of   *)
(* its own.                                                                *)
(*                                                                         *)
(* A datetime is a record [sec, us]: whole seconds since the epoch and the *)
(* microsecond within the second, all in one UTC offset.  The ISO-8601     *)
(* text isoformat(timespec='seconds') produces drops the microsecond; for  *)
(* one UTC offset that text is in one-to-one, order-preserving             *)
(* correspondence with the whole-second count, which stands for it here.   *)
(***************************************************************************)
EXTENDS Integers, Sequences, FiniteSets, TLC

VARIABLES
    srv,          \* the HTTP session the client was built on
    op,           \* the client method called: "none", "iter", "get" or "sub"
    call,         \* the arguments of that call
    pc,           \* where the method's frame stands
    consumer,     \* the caller of the iter_transactions generator
    gen,          \* the frame of the _iter_date_params generator
    retval,       \* the child mapping of the ChainMap _iter_date_params yields
    extra,        \* the params mapping handed to _iter_date_params
    pager,        \* the frame of the _iter_pages generator
    page_params,  \* the child mapping of the pager's ChainMap
    page,         \* the page iter_transactions is yielding from, and the index
    windows,      \* what each mapping _iter_date_params yielded held when yielded
    requests,     \* the params of every request the session received
    responses,    \* the response to each of them
    yielded,      \* what iter_transactions has yielded so far
    result,       \* how the call ended
    sess,         \* PayPalSession: the request in progress, what it sent and fetched
    err,          \* _get_json given an error response: the log and the outcome
    view,         \* a Transaction, the accessor applied to it and the outcome
    sel,          \* a field selector operation and its outcome
    hook          \* the CLI's exception hook: the exception, the log and the exit

clientVars == <<srv, op, call, pc, consumer, gen, retval, extra, pager, page_params,
                page, windows, requests, responses, yielded, result>>

libVars == <<sess, err, view, sel, hook>>

vars == <<srv, op, call, pc, consumer, gen, retval, extra, pager, page_params,
          page, windows, requests, responses, yielded, result, sess, err, view, sel,
          hook>>

-----------------------------------------------------------------------------
(* Program constants *)

SecondsPerDay == 86400
WindowDays == 30
DefaultLookbackDays == 365 * 3
HttpOk == 200
HttpServerError == 500
HttpErrorFloor == 400

(* Bounds of the model *)

MaxDays == 89
MaxPagerRequests == 3

\* The frames of PayPalSession.request the interpreter's recursion limit
\* leaves room for.
MaxFrames == 3
BaseSec == 1601553600

\* An optional argument: None, or Some(x).
None == <<>>

Some(x) == <<x>>

-----------------------------------------------------------------------------
(* datetime *)

Datetime(s, u) == [sec |-> s, us |-> u]

DtLess(a, b) == a.sec < b.sec \/ (a.sec = b.sec /\ a.us < b.us)

DtGreater(a, b) == DtLess(b, a)

DtAddDays(d, n) == [sec |-> d.sec + n * SecondsPerDay, us |-> d.us]

\* Python's min and max return their first argument on a tie.
DtMin(a, b) == IF DtLess(b, a) THEN b ELSE a

DtMax(a, b) == IF DtGreater(b, a) THEN b ELSE a

IsoFormat(d) == d.sec

\* str() of a non-negative int: its decimal digits.
RECURSIVE Str(_)
Str(n) == IF n < 10 THEN <<n>> ELSE Append(Str(n \div 10), n % 10)

-----------------------------------------------------------------------------
(* Mappings: a dict is a function on its keys; a ChainMap looks a key up   *)
(* in its first mapping that holds it.                                     *)

EmptyDict == <<>>

DictSet(d, k, v) == (k :> v) @@ d

ChainLookup(child, parent) == child @@ parent

-----------------------------------------------------------------------------
(* _iter_date_params: the direction's five choices (lines 308-319) *)

\* The generator without its backward mode.
BackwardNever(start_date, end_date) == FALSE

Backward(start_date, end_date) == DtGreater(start_date, end_date)

Key1(backward) == IF backward THEN "end_date" ELSE "start_date"

Key2(backward) == IF backward THEN "start_date" ELSE "end_date"

\* The step of the forward mode used in both modes.
DaysSignAlwaysPos(backward, n) == n

DaysSign(backward, n) == IF backward THEN 0 - n ELSE n

\* The loop test giving up once less than a whole window remains.
PredWholeWindowLeft(backward, a, b) ==
    IF backward THEN DtGreater(DtAddDays(a, 0 - WindowDays), b)
    ELSE DtLess(DtAddDays(a, WindowDays), b)

Pred(backward, a, b) == IF backward THEN DtGreater(a, b) ELSE DtLess(a, b)

\* The clamp of the forward mode used in both modes.
LimitFuncAlwaysMin(backward, a, b) == DtMin(a, b)

LimitFunc(backward, a, b) == IF backward THEN DtMax(a, b) ELSE DtMin(a, b)

\* Windows of a calendar month's 31 days, the span the API itself allows.
NextDateMonth(backward, next_date, end_date) ==
    LimitFunc(backward, DtAddDays(next_date, DaysSign(backward, WindowDays + 1)), end_date)

\* The cursor left where it is.
NextDateStuck(backward, next_date, end_date) == next_date

\* line 325: the next cursor, clamped at the far bound
NextDate(backward, next_date, end_date) ==
    LimitFunc(backward, DtAddDays(next_date, DaysSign(backward, WindowDays)), end_date)

\* lines 320-321: the mapping before the loop
FirstRetval(backward, start_date) ==
    DictSet(EmptyDict, Key1(backward), IsoFormat(start_date))

\* The generator without line 328.
AfterYieldDropped(backward, rv) == rv

\* line 328, run when the generator is resumed after a yield
AfterYield(backward, rv) == DictSet(rv, Key1(backward), rv[Key2(backward)])

NewGen(start_date, end_date) ==
    [st |-> "new", start_date |-> start_date, end_date |-> end_date,
     next_date |-> start_date]

NoGen == [st |-> "none", start_date |-> Datetime(0, 0), end_date |-> Datetime(0, 0),
          next_date |-> Datetime(0, 0)]

\* The loop of lines 324-328 testing after its body: one window at least.
DateParamsNextDoWhile(g, rv) ==
    LET backward == Backward(g.start_date, g.end_date)
        rv1 == IF g.st = "new" THEN FirstRetval(backward, g.start_date)
               ELSE AfterYield(backward, rv)
    IN  IF g.st = "new" \/ Pred(backward, g.next_date, g.end_date)
        THEN LET nd == NextDate(backward, g.next_date, g.end_date)
             IN  [gen |-> [g EXCEPT !.st = "suspended", !.next_date = nd],
                  retval |-> DictSet(rv1, Key2(backward), IsoFormat(nd)),
                  yields |-> TRUE]
        ELSE [gen |-> [g EXCEPT !.st = "done"], retval |-> rv1, yields |-> FALSE]

\* One __next__ of the generator, from its creation or from its last yield:
\* the frame and the mapping afterwards, and whether it yielded (the mapping)
\* or raised StopIteration.
DateParamsNext(g, rv) ==
    LET backward == Backward(g.start_date, g.end_date)
        rv1 == IF g.st = "new" THEN FirstRetval(backward, g.start_date)
               ELSE AfterYield(backward, rv)
    IN  IF Pred(backward, g.next_date, g.end_date)
        THEN LET nd == NextDate(backward, g.next_date, g.end_date)
             IN  [gen |-> [g EXCEPT !.st = "suspended", !.next_date = nd],
                  retval |-> DictSet(rv1, Key2(backward), IsoFormat(nd)),
                  yields |-> TRUE]
        ELSE [gen |-> [g EXCEPT !.st = "done"], retval |-> rv1, yields |-> FALSE]

-----------------------------------------------------------------------------
(* The HTTP session and _get_json *)

TxnSource(id) == [transaction_info |-> [transaction_id |-> id]]

Response(status, p, t, details) ==
    [status |-> status, page |-> p, total_pages |-> t, transaction_details |-> details]

\* The session of the date-window tests: one empty single page, for ever.
SinglePageEmpty == {Response(HttpOk, 1, 1, <<>>)}

PageNumbers == {1, 2, 3}

DetailLists == {<<>>, <<TxnSource("B"), TxnSource("A")>>}

\* A session that may answer any request with any page of any list, or fail.
AnyResponse ==
    {Response(HttpOk, p, t, d) : p \in PageNumbers, t \in PageNumbers, d \in DetailLists}
        \cup {Response(HttpServerError, 0, 0, <<>>)}

\* The two sessions a client is built on, and what each may answer.
Sessions == {"single_page_empty", "any"}

SessionResponses(session) ==
    IF session = "single_page_empty" THEN SinglePageEmpty ELSE AnyResponse

\* raise_for_status
RaisesForStatus(r) == r.status >= HttpErrorFloor

\* The wrapper iter_transactions and get_transaction put around a source.
Transaction(source) == [response |-> source]

NoResult == [kind |-> "none", value |-> <<>>]

Result(kind, value) == [kind |-> kind, value |-> <<value>>]

-----------------------------------------------------------------------------
(* _iter_pages *)

\* line 274: the response the loop starts from
FirstPagerResponse == [page |-> 0, total_pages |-> 1]

NewPager == [st |-> "new", response |-> FirstPagerResponse, count |-> 0]

NoPager == [st |-> "none", response |-> FirstPagerResponse, count |-> 0]

\* The loop going on while the page is not past the last.
MorePagesInclusive(response) == response.page <= response.total_pages

\* The loop stopping one page early.
MorePagesOffByOne(response) == response.page + 1 < response.total_pages

\* line 276: the loop's test
MorePages(response) == response.page < response.total_pages

\* The page asked for without the increment.
NextPageParamSame(response) == Str(response.page)

\* line 277: the page asked for next
NextPageParam(response) == Str(response.page + 1)

NoPage == [details |-> <<>>, index |-> 0]

\* The loop over a page never leaving its first element.
PageItemFirst(pg) == pg.details[1]

\* line 394: the element the loop over a page stands at
PageItem(pg) == pg.details[pg.index]

\* The last element of a matching response taken for the first.
MatchOfLast(r) == r.transaction_details[Len(r.transaction_details)]

\* line 375: the element get_transaction takes from a matching response
MatchOf(r) == r.transaction_details[1]

\* The pager writing its page into the mapping it was given.
SetPageInParams(pp, rv, text) == [page_params |-> pp, retval |-> DictSet(rv, "page", text)]

\* lines 275, 277: the pager's ChainMap is a new child of the mapping it was
\* given, and an assignment to a ChainMap writes to its first mapping: the
\* page goes into the pager's own child.
SetPage(pp, rv, text) == [page_params |-> DictSet(pp, "page", text), retval |-> rv]

\* lines 320, 275: what the session reads from the pager's ChainMap, whose
\* parent is the window generator's ChainMap, whose parent is the params dict
PageRequestParams(pp, rv, ex) == ChainLookup(pp, ChainLookup(rv, ex))

\* The generator yielding its child mapping without the caller's params.
WindowParamsChildOnly(rv, ex) == rv

WindowParams(rv, ex) == ChainLookup(rv, ex)

-----------------------------------------------------------------------------
(* Inputs *)

ExtraSeconds == {0, 1}

SubSeconds == {0, 500000}

\* The bounds a call may be given with the single-page session: a base
\* instant and one up to MaxDays days (and a second) later, in either order.
WideBounds ==
    { <<Datetime(BaseSec, u1), Datetime(BaseSec + d * SecondsPerDay + e, u2)>> :
        u1 \in SubSeconds, u2 \in SubSeconds, d \in 0..MaxDays, e \in ExtraSeconds }

NarrowDays == {0, 30, 45}

\* The bounds a call may be given with the session that answers anything.
NarrowBounds ==
    { <<Datetime(BaseSec, 0), Datetime(BaseSec + d * SecondsPerDay, 0)>> : d \in NarrowDays }

\* Either order of a pair of bounds.
ArgumentsFor(session) ==
    LET bounds == IF session = "single_page_empty" THEN WideBounds ELSE NarrowBounds
    IN  bounds \cup { <<b[2], b[1]>> : b \in bounds }

Clock == {Datetime(BaseSec + 40 * SecondsPerDay, 250000)}

DefaultFields == "transaction_info"

NoCall == [start_date |-> None, end_date |-> None, transaction_id |-> "",
           subscription_id |-> "", now |-> Datetime(0, 0)]

-----------------------------------------------------------------------------
(* PayPalSession *)

HttpUnauthorized == 401

TOKEN_PATH == "/v1/oauth2/token"

\* A URL: scheme and host, and the absolute path.
Url(root, path) == [root |-> root, path |-> path]

\* urllib.parse.urljoin with an absolute path: the path replaces the URL's.
UrlJoin(url, path) == [root |-> url.root, path |-> path]

\* The calls request may be given: a method, a path of the API at the
\* sandbox or the live site, and keyword arguments.
SessionCalls ==
    { [method |-> method, url |-> Url(root, path), kwargs |-> kwargs] :
        method \in {"GET", "POST"},
        root \in {"https://api-m.sandbox.paypal.com", "https://api-m.paypal.com"},
        path \in {"/v1/reporting/transactions", "/v1/billing/subscriptions/S"},
        kwargs \in {("params" :> "fields=transaction_info"), ("timeout" :> "30")} }

\* The statuses the server may answer with.
Statuses == {HttpOk, 400, HttpUnauthorized, 403, 404, HttpServerError}

\* line 155
Unauthorized(status) == status = HttpUnauthorized

SentRequest(method, url, kwargs) == [method |-> method, url |-> url, kwargs |-> kwargs]

\* lines 156-160: the arguments of fetch_token, called by the frame of a
\* request of session s
FetchTokenArguments(frame, s) ==
    [token_url |-> UrlJoin(frame.request.url, TOKEN_PATH), client_id |-> s.client_id,
     client_secret |-> s.client_secret]

\* stack holds the frames of request that have not returned: the call's
\* own, and those of the token requests fetch_token makes. sent and
\* statuses are the requests handed to the parent class and the responses
\* to them, fetches the calls of fetch_token.
NewSession(client_id, client_secret) ==
    [pc |-> "idle", client_id |-> client_id, client_secret |-> client_secret,
     method |-> "", url |-> Url("", ""), kwargs |-> EmptyDict, stack |-> <<>>,
     sent |-> <<>>, statuses |-> <<>>, fetches |-> <<>>, returned |-> None,
     error |-> ""]

NoSess == [NewSession("", "") EXCEPT !.pc = "none"]

\* line 162 of the topmost frame, which has been taken off s.stack: its
\* response goes to the caller of request. The caller of the call's own
\* frame is the user. The caller of a token request's frame is fetch_token
\* (lines 156-160) in the frame below, which reads a token from the body
\* and returns, or raises when the body holds an error or no token; the
\* exception leaves every frame.
ReturnResponse(s, status) ==
    IF s.stack = <<>>
    THEN {[s EXCEPT !.pc = "returned", !.returned = Some(status)]}
    ELSE {[s EXCEPT !.stack[Len(s.stack)].pc = "fetched"],
          [s EXCEPT !.pc = "raised", !.error = "OAuth2Error", !.stack = <<>>]}

-----------------------------------------------------------------------------
(* _get_json and _log_error *)

Has(d, k) == k \in DOMAIN d

\* dict.get(k, default)
DictGet(d, k, default) == IF Has(d, k) THEN d[k] ELSE default

\* Text is a sequence of pieces; a format string's literal text and each
\* replaced field is a piece.
FormatNameMessage(error) == <<error["name"], ": ", error["message"]>>

FormatDetail(detail) == <<detail["issue"], " (in ", detail["location"], ")">>

\* sep.join(parts)
RECURSIVE Join(_, _)
Join(sep, parts) ==
    IF parts = <<>> THEN <<>>
    ELSE IF Len(parts) = 1 THEN parts[1]
    ELSE parts[1] \o <<sep>> \o Join(sep, Tail(parts))

ErrorDetails(error) == DictGet(error, "details", <<>>)

\* The fields a detail lacks, in the order its format string names them.
DetailMissingKeys(detail) ==
    (IF Has(detail, "issue") THEN <<>> ELSE <<"issue">>)
        \o (IF Has(detail, "location") THEN <<>> ELSE <<"location">>)

RECURSIVE DetailsMissingKeys(_)
DetailsMissingKeys(details) ==
    IF details = <<>> THEN <<>>
    ELSE DetailMissingKeys(details[1]) \o DetailsMissingKeys(Tail(details))

\* format_map raises KeyError for the first field its mapping lacks: these
\* are the fields lacking, in the order lines 282-286 come to them.
MissingKeys(error) ==
    (IF Has(error, "name") THEN <<>> ELSE <<"name">>)
        \o (IF Has(error, "message") THEN <<>> ELSE <<"message">>)
        \o DetailsMissingKeys(ErrorDetails(error))

\* The record without the details of the error.
ErrorPartsNameOnly(error) == <<FormatNameMessage(error)>>

\* lines 282-286
ErrorParts(error) ==
    <<FormatNameMessage(error)>>
        \o [i \in 1..Len(ErrorDetails(error)) |-> FormatDetail(ErrorDetails(error)[i])]

\* line 287: the separator, an em dash (U+2014) between two spaces
EmDashSeparator == " -- "

\* line 287: the record logger.error emits
ErrorRecord(error) ==
    [levelname |-> "ERROR", message |-> Join(EmDashSeparator, ErrorParts(error))]

MaxDetails == 2

\* The bodies a response may carry: each of name, message and details is
\* there or not; details holds up to MaxDetails elements, each with an
\* issue and a location or lacking one of them.
ErrorBodies ==
    LET detail_set ==
            {("issue" :> "i1") @@ ("location" :> "test"),
             ("issue" :> "i2") @@ ("location" :> "body"),
             ("issue" :> "i3"), ("location" :> "test")}
        detail_lists == UNION { [1..n -> detail_set] : n \in 0..MaxDetails }
    IN  { n @@ m @@ d @@ ("debug_id" :> "0000") :
            n \in {EmptyDict, ("name" :> "BAD_REQUEST")},
            m \in {EmptyDict, ("message" :> "Test error")},
            d \in {EmptyDict} \cup { ("details" :> x) : x \in detail_lists } }

NewErr == [pc |-> "idle", status |-> 0, body |-> EmptyDict, log |-> <<>>,
           outcome |-> NoResult]

NoErr == [NewErr EXCEPT !.pc = "none"]

-----------------------------------------------------------------------------
(* decimal.Decimal: a sign, the coefficient's digits and an exponent *)

\* The precision of Python's default decimal context.
DecimalPrecision == 28

RECURSIVE ToInt(_)
ToInt(digits) ==
    IF digits = <<>> THEN 0
    ELSE 10 * ToInt(SubSeq(digits, 1, Len(digits) - 1)) + digits[Len(digits)]

RECURSIVE StripLeadingZeros(_)
StripLeadingZeros(digits) ==
    IF Len(digits) > 1 /\ digits[1] = 0 THEN StripLeadingZeros(Tail(digits)) ELSE digits

\* Decimal(text) of a text of digits with an optional sign and point.
ParseDecimal(text) ==
    LET DigitChars == <<"0", "1", "2", "3", "4", "5", "6", "7", "8", "9">>
        neg == text[1] = "-"
        body == IF neg THEN Tail(text) ELSE text
        dots == { i \in 1..Len(body) : body[i] = "." }
        dot == IF dots = {} THEN Len(body) + 1 ELSE CHOOSE i \in dots : TRUE
        chars == SubSeq(body, 1, dot - 1) \o SubSeq(body, dot + 1, Len(body))
    IN  [neg |-> neg,
         digits |-> StripLeadingZeros(
                        [i \in 1..Len(chars) |->
                            (CHOOSE d \in 1..10 : DigitChars[d] = chars[i]) - 1]),
         exp |-> IF dots = {} THEN 0 ELSE 0 - (Len(body) - dot)]

\* Decimal(n) of a non-negative int.
IntDecimal(n) == [neg |-> FALSE, digits |-> Str(n), exp |-> 0]

\* The digits of a coefficient plus one.
RECURSIVE Incr(_)
Incr(digits) ==
    IF digits = <<>> THEN <<1>>
    ELSE IF digits[Len(digits)] < 9
         THEN [digits EXCEPT ![Len(digits)] = @ + 1]
         ELSE Append(Incr(SubSeq(digits, 1, Len(digits) - 1)), 0)

\* Long division: further digits of a quotient while a remainder is left and
\* the quotient has fewer significant digits than the precision.
RECURSIVE DivDigits(_, _, _, _)
DivDigits(acc, rem, divisor, places) ==
    IF rem = 0 \/ (acc[1] # 0 /\ Len(acc) >= DecimalPrecision)
    THEN [digits |-> acc, rem |-> rem, places |-> places]
    ELSE DivDigits(StripLeadingZeros(Append(acc, (rem * 10) \div divisor)),
                   (rem * 10) % divisor, divisor, places + 1)

\* A quotient that forgets its divisor.
DivideIgnoringDivisor(a, b) == [kind |-> "Decimal", value |-> <<a>>]

\* Decimal.__truediv__ in the default context: the quotient rounded half
\* even to the precision; a zero divisor signals.
Divide(a, b) ==
    LET n == ToInt(a.digits)
        d == ToInt(b.digits)
    IN  IF d = 0
        THEN [kind |-> IF n = 0 THEN "InvalidOperation" ELSE "DivisionByZero",
              value |-> <<>>]
        ELSE LET q == DivDigits(Str(n \div d), n % d, d, 0)
                 up == \/ 2 * q.rem > d
                       \/ 2 * q.rem = d /\ q.digits[Len(q.digits)] % 2 = 1
                 rounded == IF up THEN Incr(q.digits) ELSE q.digits
                 carried == Len(rounded) > Len(q.digits)
             IN  [kind |-> "Decimal",
                  value |-> <<[neg |-> a.neg # b.neg,
                               digits |-> IF carried
                                          THEN SubSeq(rounded, 1, Len(rounded) - 1)
                                          ELSE rounded,
                               exp |-> a.exp - b.exp - q.places
                                           + (IF carried THEN 1 ELSE 0)]>>]

-----------------------------------------------------------------------------
(* Amount, CartItem, TransactionStatus *)

\* Amount.from_api: the Amount, or the KeyError of the key the source lacks.
AmountFromApi(source) ==
    IF ~Has(source, "value") THEN Result("KeyError", "value")
    ELSE IF ~Has(source, "currency_code") THEN Result("KeyError", "currency_code")
    ELSE Result("Amount", [number |-> ParseDecimal(source["value"]),
                           currency |-> source["currency_code"]])

\* mapping.get(k) and mapping.get(k, default) with an optional result
OptionalGet(d, k, default) == IF Has(d, k) THEN Some(d[k]) ELSE default

\* line 52
Quantity(source) ==
    IF Has(source, "item_quantity") THEN ParseDecimal(source["item_quantity"])
    ELSE IntDecimal(1)

\* CartItem.from_api: the CartItem, or the exception raised.
CartItemFromApi(source, default_name) ==
    IF ~Has(source, "item_amount") THEN Result("KeyError", "item_amount")
    ELSE LET total_price == AmountFromApi(source["item_amount"])
             quantity == Quantity(source)
             given == IF Has(source, "item_unit_price")
                      THEN AmountFromApi(source["item_unit_price"])
                      ELSE Result("KeyError", "item_unit_price")
             quotient == Divide(total_price.value[1].number, quantity)
         IN  IF total_price.kind # "Amount" THEN total_price
             ELSE IF given.kind # "Amount" /\ quotient.kind # "Decimal" THEN quotient
             ELSE Result("CartItem",
                         [code |-> OptionalGet(source, "item_code", None),
                          name |-> OptionalGet(source, "item_name", default_name),
                          description |-> OptionalGet(source, "item_description", None),
                          quantity |-> quantity,
                          unit_price |-> IF given.kind = "Amount" THEN given.value[1]
                                         ELSE [number |-> quotient.value[1],
                                               currency |-> total_price.value[1].currency],
                          total_price |-> total_price.value[1]])

\* TransactionStatus[name]: the member's value, or KeyError.
TransactionStatusOf(name) ==
    IF name \in {"D", "DENIED"} THEN Result("TransactionStatus", "Denied")
    ELSE IF name \in {"F", "REFUNDED"} THEN Result("TransactionStatus", "Partially Refunded")
    ELSE IF name \in {"P", "PENDING"} THEN Result("TransactionStatus", "Pending")
    ELSE IF name \in {"S", "SUCCESSFUL", "SUCCESS"} THEN Result("TransactionStatus", "Successful")
    ELSE IF name \in {"V", "REVERSED"} THEN Result("TransactionStatus", "Reversed")
    ELSE Result("KeyError", name)

\* parse_datetime of the text isoformat gives for a whole second
ParseDatetime(text) == Datetime(text, 0)

-----------------------------------------------------------------------------
(* Transaction *)

\* The transaction id the messages of _get_from_response name, if loaded.
LoadedId(response) ==
    IF Has(response, "transaction_info") /\ Has(response["transaction_info"], "transaction_id")
    THEN Some(response["transaction_info"]["transaction_id"]) ELSE None

\* Every absent key reported as a field that was not loaded.
MissingKeyErrorAlwaysField(index) == "MissingFieldError"

\* lines 113-120: the exception for the key at index, counted from 1
MissingKeyError(index) == IF index = 1 THEN "MissingFieldError" ELSE "KeyError"

\* _get_from_response: the value under the keys, or the error of the first
\* key absent: MissingFieldError for the first key, KeyError for a later one.
RECURSIVE Walk(_, _, _, _)
Walk(response, value, keys, index) ==
    IF index > Len(keys) THEN Result("value", value)
    ELSE IF Has(value, keys[index])
         THEN Walk(response, value[keys[index]], keys, index + 1)
         ELSE Result(MissingKeyError(index),
                     [txn_id |-> LoadedId(response), keys |-> SubSeq(keys, 1, index)])

GetFromResponse(response, keys) == Walk(response, response, keys, 1)

\* A fee that is required like the amount.
FeeAmountRequired(txn_info) ==
    IF Has(txn_info, "fee_amount") THEN AmountFromApi(txn_info["fee_amount"])
    ELSE Result("KeyError", "fee_amount")

\* _fee_amount
FeeAmount(txn_info) ==
    IF Has(txn_info, "fee_amount") THEN AmountFromApi(txn_info["fee_amount"])
    ELSE Result("returned", None)

\* The accessors made by _wrap_response, and the keys of each.
AccessorKeys ==
    [amount |-> <<"transaction_info", "transaction_amount">>,
     fee_amount |-> <<"transaction_info">>,
     initiation_date |-> <<"transaction_info", "transaction_initiation_date">>,
     payer_email |-> <<"payer_info", "email_address">>,
     payer_fullname |-> <<"payer_info", "payer_name", "alternate_full_name">>,
     status |-> <<"transaction_info", "transaction_status">>,
     transaction_id |-> <<"transaction_info", "transaction_id">>,
     updated_date |-> <<"transaction_info", "transaction_updated_date">>]

\* The func of each accessor applied to the value under its keys.
AccessorFunc(name, value) ==
    IF name = "amount" THEN AmountFromApi(value)
    ELSE IF name = "fee_amount" THEN FeeAmount(value)
    ELSE IF name \in {"initiation_date", "updated_date"}
    THEN Result("datetime", ParseDatetime(value))
    ELSE IF name = "status" THEN TransactionStatusOf(value)
    ELSE Result("str", value)

\* response_wrapper
Accessor(name, response) ==
    LET got == GetFromResponse(response, AccessorKeys[name])
    IN  IF got.kind # "value" THEN got ELSE AccessorFunc(name, got.value[1])

\* cart_items up to its loop: the error of a missing cart_info, or the item
\* sources and the default name.
CartStart(response) ==
    LET got == GetFromResponse(response, <<"cart_info">>)
    IN  IF got.kind # "value" THEN got
        ELSE Result("cart",
                    [item_seq |-> DictGet(got.value[1], "item_details", <<>>),
                     default_name |->
                         IF Has(response, "transaction_info")
                         THEN OptionalGet(response["transaction_info"],
                                          "transaction_subject", None)
                         ELSE None])

\* The loop of cart_items from the source at index to its next yield, its
\* end, or the exception that leaves it.
RECURSIVE CartNext(_, _, _)
CartNext(item_seq, default_name, index) ==
    IF index > Len(item_seq) THEN [kind |-> "StopIteration", value |-> <<>>, index |-> index]
    ELSE LET item == CartItemFromApi(item_seq[index], default_name)
         IN  IF item.kind = "KeyError" THEN CartNext(item_seq, default_name, index + 1)
             ELSE [kind |-> item.kind, value |-> item.value, index |-> index + 1]


\* A view that holds no key.
GetItemAlwaysKeyError(response, key) == Result("KeyError", key)

\* __getitem__ (lines 94-95): the wrapped mapping's value, or its KeyError
GetItem(response, key) ==
    IF Has(response, key) THEN Result("value", response[key]) ELSE Result("KeyError", key)

\* The methods of a mapping: __getitem__, __iter__ and __len__ as the class
\* defines them, and __contains__, get and __eq__ as collections.abc.Mapping
\* builds them on those three. The other operand of __eq__ is a mapping
\* with its items, or is none.
MappingMethod(name, response, key, other) ==
    CASE name = "__getitem__" -> GetItem(response, key)
      [] name = "__iter__" -> Result("keys", DOMAIN response)
      [] name = "__len__" -> Result("int", Cardinality(DOMAIN response))
      [] name = "__contains__" -> Result("bool", GetItem(response, key).kind # "KeyError")
      [] name = "get" ->
            IF GetItem(response, key).kind = "KeyError" THEN Result("None", None)
            ELSE GetItem(response, key)
      [] name = "__eq__" ->
            IF ~other.is_mapping THEN Result("bool", FALSE)
            ELSE Result("bool",
                        /\ DOMAIN other.items = { k \in DOMAIN other.items :
                                                     GetItem(response, k).kind = "value" }
                        /\ Cardinality(DOMAIN other.items) = Cardinality(DOMAIN response)
                        /\ \A k \in DOMAIN other.items :
                              GetItem(response, k).value[1] = other.items[k])

-----------------------------------------------------------------------------
(* PayPalFields, SubscriptionFields, TransactionFields *)

\* The letters str.upper and str.lower exchange; any other character is
\* left as it is.
Alphabet ==
    [upper |-> <<"A", "B", "C", "D", "E", "F", "G", "H", "I", "J", "K", "L", "M",
                 "N", "O", "P", "Q", "R", "S", "T", "U", "V", "W", "X", "Y", "Z">>,
     lower |-> <<"a", "b", "c", "d", "e", "f", "g", "h", "i", "j", "k", "l", "m",
                 "n", "o", "p", "q", "r", "s", "t", "u", "v", "w", "x", "y", "z">>]

\* A text is the sequence of its characters.
Recase(text, from, to) ==
    [i \in 1..Len(text) |->
        IF \E n \in 1..26 : from[n] = text[i]
        THEN to[CHOOSE n \in 1..26 : from[n] = text[i]]
        ELSE text[i]]

\* An upper() that leaves the text as it is.
UpperUnchanged(text) == text

Upper(text) == Recase(text, Alphabet.lower, Alphabet.upper)

Lower(text) == Recase(text, Alphabet.upper, Alphabet.lower)

\* The members of each class in the order of their declaration; enum.auto
\* gives the flags the powers of two.
Members(cls) ==
    IF cls = "TransactionFields"
    THEN <<[name |-> <<"T", "R", "A", "N", "S", "A", "C", "T", "I", "O", "N">>, value |-> 1],
           [name |-> <<"P", "A", "Y", "E", "R">>, value |-> 2],
           [name |-> <<"S", "H", "I", "P", "P", "I", "N", "G">>, value |-> 4],
           [name |-> <<"A", "U", "C", "T", "I", "O", "N">>, value |-> 8],
           [name |-> <<"C", "A", "R", "T">>, value |-> 16],
           [name |-> <<"I", "N", "C", "E", "N", "T", "I", "V", "E">>, value |-> 32],
           [name |-> <<"S", "T", "O", "R", "E">>, value |-> 64],
           [name |-> <<"A", "L", "L">>, value |-> 127]>>
    ELSE <<[name |-> <<"L", "A", "S", "T", "_", "F", "A", "I", "L", "E", "D", "_", "P", "A", "Y", "M", "E", "N", "T">>, value |-> 1],
           [name |-> <<"P", "L", "A", "N">>, value |-> 2],
           [name |-> <<"A", "L", "L">>, value |-> 3]>>

RECURSIVE BitAnd(_, _)
BitAnd(a, b) ==
    IF a = 0 \/ b = 0 THEN 0
    ELSE (a % 2) * (b % 2) + 2 * BitAnd(a \div 2, b \div 2)

\* An or that keeps its left operand.
BitOrKeepsLeft(a, b) == a

RECURSIVE BitOr(_, _)
BitOr(a, b) ==
    IF a = 0 THEN b
    ELSE IF b = 0 THEN a
    ELSE (IF a % 2 = 1 \/ b % 2 = 1 THEN 1 ELSE 0) + 2 * BitOr(a \div 2, b \div 2)

\* Every value taken for a base field.
Log2IsWholeAlways(value) == TRUE

\* line 97 for a value above 0: math.log2(value) % 1 is zero
RECURSIVE Log2IsWhole(_)
Log2IsWhole(value) == value = 1 \/ (value > 1 /\ value % 2 = 0 /\ Log2IsWhole(value \div 2))

\* is_base_field: math.log2 raises ValueError for 0
IsBaseField(value) ==
    IF value = 0 THEN Result("ValueError", "math domain error")
    ELSE Result("bool", Log2IsWhole(value))

\* Iterating a Flag class gives its members in the order of declaration;
\* from Python 3.11 on it leaves out those of several bits.
Iterated(cls, multibit) ==
    IF multibit THEN Members(cls)
    ELSE SelectSeq(Members(cls), LAMBDA member : Log2IsWhole(member.value))

\* _base_value, which TransactionFields overrides
BaseValue(cls, member) ==
    IF cls = "TransactionFields" THEN Lower(member.name) \o <<"_", "i", "n", "f", "o">>
    ELSE Lower(member.name)

\* param_value
ParamValue(cls, value, multibit) ==
    LET Contained(member) ==
            BitAnd(member.value, value) # 0 /\ IsBaseField(member.value).value[1]
        flags == SelectSeq(Iterated(cls, multibit), Contained)
    IN  Join(",", [i \in 1..Len(flags) |-> BaseValue(cls, flags[i])])

RECURSIVE OrAll(_, _)
OrAll(value, fields) ==
    IF fields = <<>> THEN value ELSE OrAll(BitOr(value, fields[1]), Tail(fields))

\* combine: fields is None, or Some(sequence of values)
Combine(cls, fields, multibit) ==
    LET fields_iter == IF fields # None /\ fields[1] # <<>> THEN fields[1]
                       ELSE [i \in 1..Len(Iterated(cls, multibit)) |->
                                Iterated(cls, multibit)[i].value]
    IN  OrAll(fields_iter[1], Tail(fields_iter))

\* from_arg: cls[arg.upper()], or ValueError
FromArg(cls, arg) ==
    LET named == { i \in 1..Len(Members(cls)) : Members(cls)[i].name = Upper(arg) }
    IN  IF named = {} THEN Result("ValueError", [cls |-> cls, arg |-> arg])
        ELSE Result("flag", Members(cls)[CHOOSE i \in named : TRUE].value)

FieldClasses == {"TransactionFields", "SubscriptionFields"}

MaxFields == 3

\* The sequences combine may be given: members of the class.
FieldLists(cls) ==
    UNION { [1..n -> { Members(cls)[i].value : i \in 1..Len(Members(cls)) }] :
              n \in 0..MaxFields }

MaxCased == 4

\* Spellings of a name: every choice of case for its first MaxCased
\* letters with the rest in lower case, and the name in upper case.
Spellings(name) ==
    {Upper(name)} \cup
        { [i \in 1..Len(name) |-> IF i \in S THEN name[i] ELSE Lower(name)[i]] :
            S \in SUBSET (1..MaxCased) }

\* The arguments from_arg may be given: spellings of the names of both
\* classes, and texts that are no name.
FromArgArguments ==
    UNION { Spellings(Members(cls)[i].name) :
              cls \in FieldClasses, i \in 1..3 }
        \cup UNION { Spellings(Members("TransactionFields")[i].name) : i \in 4..8 }
        \cup {<<>>, <<"p", "l", "a", "n", " ">>, <<"c", "a", "r", "t", "_", "i", "n", "f", "o">>,
              <<"p", "l", "a", "n", "s">>, <<"C", "A", "R">>}

NewSel(multibit) ==
    [pc |-> "idle", multibit |-> multibit, cls |-> "", op |-> "", fields |-> None,
     arg |-> <<>>, value |-> 0, outcome |-> NoResult]

NoSel == [NewSel(FALSE) EXCEPT !.pc = "none"]

-----------------------------------------------------------------------------
(* The responses a Transaction may wrap *)

\* The sources a cart may hold: with and without a quantity, a unit price
\* and the amount itself; quantities that divide the amount, that do not,
\* and zero; a unit price without its value.
ItemSources ==
    LET Amt(text, currency) == ("value" :> text) @@ ("currency_code" :> currency)
    IN  {[item_amount |-> Amt(<<"5", ".", "9", "9">>, "USD"), item_name |-> "a"],
         [item_amount |-> Amt(<<"1", "5", ".", "9", "8">>, "USD"), item_quantity |-> <<"2">>,
          item_name |-> "b", item_code |-> "B1"],
         [item_amount |-> Amt(<<"1", "5", ".", "9", "8">>, "USD"), item_quantity |-> <<"2">>,
          item_unit_price |-> Amt(<<"7", ".", "9", "9">>, "USD")],
         [item_quantity |-> <<"1", ".", "0", "0", "0">>],
         [item_amount |-> Amt(<<"1", "0", ".", "0", "0">>, "EUR"), item_quantity |-> <<"3">>],
         [item_amount |-> Amt(<<"1", "0", ".", "0", "0">>, "USD"), item_quantity |-> <<"0">>],
         [item_amount |-> Amt(<<"-", "1", "0", ".", "0", "0">>, "USD"),
          item_quantity |-> <<"4">>, item_unit_price |-> ("currency_code" :> "USD")]}

MaxCartItems == 3

\* The responses: nothing loaded; transaction_info whole, empty, or less one
\* of its keys; payer_info likewise; cart_info with up to MaxCartItems
\* sources or without item_details; the last two with and without
\* transaction_info.
ViewResponses ==
    LET Amt(text, currency) == ("value" :> text) @@ ("currency_code" :> currency)
        Without(d, k) == [x \in DOMAIN d \ {k} |-> d[x]]
        txn_info ==
            [transaction_id |-> "TXN1", transaction_status |-> "S",
             transaction_initiation_date |-> IsoFormat(Datetime(BaseSec, 0)),
             transaction_updated_date |-> IsoFormat(Datetime(BaseSec + SecondsPerDay, 0)),
             transaction_amount |-> Amt(<<"5", ".", "0", "0">>, "USD"),
             fee_amount |-> Amt(<<"-", "0", ".", "4", "9">>, "USD"),
             transaction_subject |-> "subject"]
        payer_info ==
            [account_id |-> "PAYER12345678", email_address |-> "payer@example.org",
             payer_name |-> [given_name |-> "Payer", alternate_full_name |-> "Payer Smith"]]
        txn_infos == {txn_info, EmptyDict} \cup { Without(txn_info, k) : k \in DOMAIN txn_info }
        payer_infos ==
            {payer_info, EmptyDict, Without(payer_info, "email_address"),
             Without(payer_info, "payer_name"),
             [payer_info EXCEPT !.payer_name = [given_name |-> "Payer"]]}
        cart_infos ==
            {EmptyDict} \cup
                { ("item_details" :> l) :
                    l \in UNION { [1..n -> ItemSources] : n \in 0..MaxCartItems } }
        loaded == {EmptyDict, ("transaction_info" :> txn_info)}
    IN  {EmptyDict}
            \cup { ("transaction_info" :> t) : t \in txn_infos }
            \cup { ("payer_info" :> x) @@ t : x \in payer_infos, t \in loaded }
            \cup { ("cart_info" :> c) @@ t : c \in cart_infos, t \in loaded }

NewView(response) ==
    [pc |-> "idle", response |-> response, method |-> "", args |-> <<>>, index |-> 0,
     yielded |-> <<>>, from |-> <<>>, outcome |-> NoResult, raised |-> FALSE]

NoView == [NewView(EmptyDict) EXCEPT !.pc = "none"]

-----------------------------------------------------------------------------
(* ExceptHook, the sys.excepthook of the command line tools *)

HttpForbidden == 403

\* The exit codes of sysexits.h the hook uses, as the os module has them.
EX_UNAVAILABLE == 69
EX_SOFTWARE == 70
EX_OSERR == 71
EX_IOERR == 74
EX_NOPERM == 77

\* The classes an exception of the class is an instance of. The exceptions
\* of requests are OSErrors.
ExceptionMro(cls) ==
    {cls, "BaseException"}
        \cup (IF cls = "KeyboardInterrupt" THEN {} ELSE {"Exception"})
        \cup (IF cls \in {"HTTPError", "ConnectionError"}
              THEN {"RequestException", "OSError"} ELSE {})
        \cup (IF cls = "FileNotFoundError" THEN {"OSError"} ELSE {})
        \cup (IF cls = "KeyError" THEN {"LookupError"} ELSE {})
        \cup (IF cls = "MissingFieldError" THEN {"KeyError", "LookupError"} ELSE {})

\* A hook that leaves with EX_SOFTWARE whatever the exception.
ExitCodeAlwaysSoftware(exc) == Result("SystemExit", EX_SOFTWARE)

\* lines 60-94: how the process ends. A KeyboardInterrupt has the process
\* kill itself with SIGINT; anything else leaves by SystemExit.
ExitCode(exc) ==
    IF "KeyboardInterrupt" \in ExceptionMro(exc.cls) THEN Result("killed", "SIGINT")
    ELSE IF "HTTPError" \in ExceptionMro(exc.cls)
    THEN LET status_code == IF exc.response = None THEN HttpServerError
                            ELSE exc.response[1]
         IN  IF status_code = HttpUnauthorized \/ status_code = HttpForbidden
             THEN Result("SystemExit", EX_NOPERM)
             ELSE IF status_code < HttpServerError THEN Result("SystemExit", EX_SOFTWARE)
             ELSE Result("SystemExit", EX_UNAVAILABLE)
    ELSE IF "OSError" \in ExceptionMro(exc.cls)
    THEN IF exc.filename = None THEN Result("SystemExit", EX_OSERR)
         ELSE Result("SystemExit", EX_IOERR)
    ELSE Result("SystemExit", EX_SOFTWARE)

\* lines 58-93: the record logger.critical emits, "%s%s%s" of the error
\* type, a colon if there is a message, and the message. A message that
\* is the empty text gets no colon; a message of None gets none either and
\* is formatted as the text None.
CriticalRecord(exc) ==
    LET args_msg == Join(": ", [i \in 1..Len(exc.args) |-> <<exc.args[i]>>])
        is_http == "HTTPError" \in ExceptionMro(exc.cls)
        is_os == ~is_http /\ "OSError" \in ExceptionMro(exc.cls)
        error_type == IF is_http THEN <<"PayPal API error">>
                      ELSE IF is_os
                      THEN IF exc.filename = None THEN <<"OS error">> ELSE <<"I/O error">>
                      ELSE <<"internal ", exc.cls>>
        msg == IF ~is_os THEN Some(args_msg)
               ELSE IF exc.filename = None
               THEN (IF exc.strerror = None THEN None ELSE Some(exc.strerror[1]))
               ELSE Some(exc.filename[1] \o <<": ">>
                             \o (IF exc.strerror = None THEN <<"None">> ELSE exc.strerror[1]))
        truthy == msg # None /\ \E i \in 1..Len(msg[1]) : msg[1][i] # ""
    IN  [levelname |-> "CRITICAL",
         message |-> error_type \o (IF truthy THEN <<": ">> ELSE <<>>)
                         \o (IF msg = None THEN <<"None">> ELSE msg[1])]

\* The exceptions that may reach the hook: an interrupt; HTTP errors with a
\* response of a 4xx or 5xx status or with none; other errors of requests
\* and of the operating system, with and without a file name; and errors
\* of the program itself. An OSError, and so an exception of requests,
\* takes two arguments for its errno and strerror and a third for its
\* filename, and keeps the first two as its args.
Exceptions ==
    LET Exc(cls, args, response, filename, strerror) ==
            [cls |-> cls, args |-> args, response |-> response, filename |-> filename,
             strerror |-> strerror]
        OSErr(cls, a, response) ==
            Exc(cls, IF Len(a) = 3 THEN SubSeq(a, 1, 2) ELSE a, response,
                IF Len(a) = 3 THEN Some(<<a[3]>>) ELSE None,
                IF Len(a) >= 2 THEN Some(<<a[2]>>) ELSE None)
        arg_lists == {<<>>, <<"">>, <<"boom">>, <<"boom", "again">>}
        os_arg_lists == {<<>>, <<"boom">>, <<"2", "">>,
                         <<"2", "No such file or directory">>,
                         <<"2", "No such file or directory", "export.csv">>}
    IN  {Exc("KeyboardInterrupt", <<>>, None, None, None)}
            \cup { OSErr("HTTPError", a, r) :
                     a \in arg_lists,
                     r \in {None} \cup { Some(c) : c \in {400, 401, 402, 403, 404, 409, 429, 499,
                                                          500, 502, 503, 599} } }
            \cup { OSErr("ConnectionError", a, None) : a \in arg_lists }
            \cup { OSErr(cls, a, None) :
                     cls \in {"OSError", "FileNotFoundError"}, a \in os_arg_lists }
            \cup { Exc(cls, a, None, None, None) :
                     cls \in {"ValueError", "KeyError", "MissingFieldError", "RuntimeError"},
                     a \in arg_lists }

\* debug: whether the hook's logger is enabled for DEBUG.
NewHook == [pc |-> "idle", debug |-> FALSE, exc |-> <<>>, log |-> <<>>,
            outcome |-> NoResult]

NoHook == [NewHook EXCEPT !.pc = "none"]

-----------------------------------------------------------------------------
(* The state after PayPalAPIClient(session): nothing called yet. *)

ClientIdle ==
    /\ op = "none"
    /\ call = NoCall
    /\ pc = "idle"
    /\ consumer = "none"
    /\ gen = NoGen
    /\ retval = EmptyDict
    /\ extra = EmptyDict
    /\ pager = NoPager
    /\ page_params = EmptyDict
    /\ page = NoPage
    /\ windows = <<>>
    /\ requests = <<>>
    /\ responses = <<>>
    /\ yielded = <<>>
    /\ result = NoResult

Init ==
    /\ srv \in Sessions
    /\ ClientIdle
    /\ sess = NoSess
    /\ err = NoErr
    /\ view = NoView
    /\ sel = NoSel
    /\ hook = NoHook

\* _get_json's exchange with the session: the session receives dict(params)
\* and answers r.
GetJson(params, r) ==
    /\ requests' = Append(requests, params)
    /\ responses' = Append(responses, r)

\* One __next__ of _iter_date_params on behalf of a loop: the frame, the
\* mapping, and what the mapping held if it was yielded.
ResumeDateParams(n) ==
    /\ gen' = n.gen
    /\ retval' = n.retval
    /\ windows' = IF n.yields THEN Append(windows, WindowParams(n.retval, extra))
                  ELSE windows

-----------------------------------------------------------------------------
(* iter_transactions *)

\* A generator whose frame runs on without a consumer inside __next__.
ResumedAlways == TRUE

\* The body of a generator function runs only while its consumer is inside
\* __next__: from the call or the last yield up to the next yield.
Resumed == consumer = "waiting"

\* The call: a generator whose body has not started.
IterTransactions ==
    /\ pc = "idle"
    /\ \E a \in ArgumentsFor(srv) :
          /\ call' = [NoCall EXCEPT !.start_date = Some(a[1]), !.end_date = Some(a[2])]
          /\ gen' = NewGen(a[1], a[2])
    /\ op' = "iter"
    /\ extra' = ("fields" :> DefaultFields)
    /\ pc' = "windows"
    /\ consumer' = "idle"
    /\ UNCHANGED <<srv, retval, pager, page_params, page, windows, requests,
                   responses, yielded, result>>
    /\ UNCHANGED libVars

\* The caller asks for the next transaction.
ConsumerNext ==
    /\ op = "iter"
    /\ consumer = "idle"
    /\ pc \in {"windows", "pages", "items"}
    /\ consumer' = "waiting"
    /\ UNCHANGED <<srv, op, call, pc, gen, retval, extra, pager, page_params, page,
                   windows, requests, responses, yielded, result>>
    /\ UNCHANGED libVars

\* The caller abandons the generator where it is suspended.
ConsumerClose ==
    /\ op = "iter"
    /\ consumer = "idle"
    /\ pc \in {"windows", "pages", "items"}
    /\ consumer' = "closed"
    /\ UNCHANGED <<srv, op, call, pc, gen, retval, extra, pager, page_params, page,
                   windows, requests, responses, yielded, result>>
    /\ UNCHANGED libVars

\* line 390: the outer loop takes the next window, or ends.
IterNextWindow ==
    /\ op = "iter"
    /\ pc = "windows"
    /\ Resumed
    /\ LET n == DateParamsNext(gen, retval)
       IN  /\ ResumeDateParams(n)
           /\ IF n.yields
              THEN /\ pc' = "pages"
                   /\ pager' = NewPager
                   /\ page_params' = EmptyDict
                   /\ UNCHANGED <<consumer, result>>
              ELSE /\ pc' = "done"
                   /\ consumer' = "idle"
                   /\ result' = Result("StopIteration", "")
                   /\ UNCHANGED <<pager, page_params>>
    /\ UNCHANGED <<srv, op, call, extra, page, requests, responses, yielded>>
    /\ UNCHANGED libVars

\* lines 276-279: the pager asks for the next page and yields the response.
IterRequestPage ==
    /\ op = "iter"
    /\ pc = "pages"
    /\ Resumed
    /\ MorePages(pager.response)
    /\ Len(requests) < MaxPagerRequests
    /\ \E r \in SessionResponses(srv) :
          LET set == SetPage(page_params, retval, NextPageParam(pager.response))
          IN  /\ page_params' = set.page_params
              /\ retval' = set.retval
              /\ GetJson(PageRequestParams(set.page_params, set.retval, extra), r)
              /\ IF RaisesForStatus(r)
                 THEN /\ pc' = "raised"
                      /\ consumer' = "idle"
                      /\ result' = Result("HTTPError", r.status)
                      /\ pager' = [pager EXCEPT !.st = "raised", !.count = @ + 1]
                      /\ UNCHANGED page
                 ELSE /\ pc' = "items"
                      /\ pager' = [st |-> "suspended",
                                   response |-> [page |-> r.page,
                                                 total_pages |-> r.total_pages],
                                   count |-> pager.count + 1]
                      /\ page' = [details |-> r.transaction_details, index |-> 1]
                      /\ UNCHANGED <<consumer, result>>
    /\ UNCHANGED <<srv, op, call, gen, extra, windows, yielded>>
    /\ UNCHANGED libVars

\* line 276 false: the pager is exhausted.
IterPagesDone ==
    /\ op = "iter"
    /\ pc = "pages"
    /\ Resumed
    /\ ~MorePages(pager.response)
    /\ pager' = [pager EXCEPT !.st = "done"]
    /\ pc' = "windows"
    /\ UNCHANGED <<srv, op, call, consumer, gen, retval, extra, page_params, page,
                   windows, requests, responses, yielded, result>>
    /\ UNCHANGED libVars

\* lines 394-395: the next element of the page, wrapped.
IterYieldTransaction ==
    /\ op = "iter"
    /\ pc = "items"
    /\ Resumed
    /\ page.index <= Len(page.details)
    /\ yielded' = Append(yielded, Transaction(PageItem(page)))
    /\ page' = [page EXCEPT !.index = @ + 1]
    /\ consumer' = "idle"
    /\ UNCHANGED <<srv, op, call, pc, gen, retval, extra, pager, page_params,
                   windows, requests, responses, result>>
    /\ UNCHANGED libVars

\* line 394: the page has no further element.
IterPageDone ==
    /\ op = "iter"
    /\ pc = "items"
    /\ Resumed
    /\ page.index > Len(page.details)
    /\ pc' = "pages"
    /\ UNCHANGED <<srv, op, call, consumer, gen, retval, extra, pager, page_params,
                   page, windows, requests, responses, yielded, result>>
    /\ UNCHANGED libVars

-----------------------------------------------------------------------------
(* get_transaction *)

\* The optional arguments a call may be given: both bounds, or (with the
\* single-page session) the defaults for one or both.
GetArgumentsFor(session) ==
    { <<Some(b[1]), Some(b[2])>> : b \in ArgumentsFor(session) }
        \cup (IF session = "single_page_empty"
              THEN {<<None, None>>} \cup { <<Some(b[2]), None>> : b \in NarrowBounds }
              ELSE {})

\* lines 362-372: the defaults, and the generator from end_date to start_date.
GetTransaction ==
    /\ pc = "idle"
    /\ \E id \in {"A"}, now \in Clock, a \in GetArgumentsFor(srv) :
          LET end_date == IF a[1] = None THEN now ELSE a[1][1]
              start_date == IF a[2] = None THEN DtAddDays(now, 0 - DefaultLookbackDays)
                            ELSE a[2][1]
          IN  /\ call' = [NoCall EXCEPT !.start_date = a[2], !.end_date = a[1],
                                          !.transaction_id = id, !.now = now]
              /\ gen' = NewGen(end_date, start_date)
              /\ extra' = ("transaction_id" :> id) @@ ("fields" :> DefaultFields)
    /\ op' = "get"
    /\ pc' = "windows"
    /\ UNCHANGED <<srv, consumer, retval, pager, page_params, page, windows,
                   requests, responses, yielded, result>>
    /\ UNCHANGED libVars

\* line 369: the loop takes the next window; line 376 when there is none.
GetNextWindow ==
    /\ op = "get"
    /\ pc = "windows"
    /\ LET n == DateParamsNext(gen, retval)
       IN  /\ ResumeDateParams(n)
           /\ IF n.yields
              THEN /\ pc' = "request"
                   /\ UNCHANGED result
              ELSE /\ pc' = "raised"
                   /\ result' = Result("ValueError", call.transaction_id)
    /\ UNCHANGED <<srv, op, call, consumer, extra, pager, page_params, page,
                   requests, responses, yielded>>
    /\ UNCHANGED libVars

\* lines 373-375: one request for the window; a match ends the search.
GetRequest ==
    /\ op = "get"
    /\ pc = "request"
    /\ \E r \in SessionResponses(srv) :
          /\ GetJson(WindowParams(retval, extra), r)
          /\ IF RaisesForStatus(r)
             THEN /\ pc' = "raised"
                  /\ result' = Result("HTTPError", r.status)
             ELSE IF r.transaction_details # <<>>
             THEN /\ pc' = "returned"
                  /\ result' = Result("Transaction", Transaction(MatchOf(r)))
             ELSE /\ pc' = "windows"
                  /\ UNCHANGED result
    /\ UNCHANGED <<srv, op, call, consumer, gen, retval, extra, pager, page_params,
                   page, windows, yielded>>
    /\ UNCHANGED libVars

-----------------------------------------------------------------------------
(* get_subscription *)

\* lines 330-338: one request through _get_json to the path
\* /v1/billing/subscriptions/<subscription_id>, which call.subscription_id
\* determines; its params hold the fields selector's param_value alone
\* (SubscriptionFields.ALL when the argument is left out). The call returns
\* the body, or raises what raise_for_status raised.
GetSubscription ==
    /\ pc = "idle"
    /\ \E id \in {"S"}, fields \in 0..3, multibit \in BOOLEAN, r \in SessionResponses(srv) :
          /\ call' = [NoCall EXCEPT !.subscription_id = id]
          /\ GetJson(("fields" :> ParamValue("SubscriptionFields", fields, multibit)), r)
          /\ IF RaisesForStatus(r)
             THEN /\ pc' = "raised"
                  /\ result' = Result("HTTPError", r.status)
             ELSE /\ pc' = "returned"
                  /\ result' = Result("APIResponse", r)
    /\ op' = "sub"
    /\ UNCHANGED <<srv, consumer, gen, retval, extra, pager, page_params, page,
                   windows, yielded>>
    /\ UNCHANGED libVars

Next ==
    \/ IterTransactions
    \/ ConsumerNext
    \/ ConsumerClose
    \/ IterNextWindow
    \/ IterRequestPage
    \/ IterPagesDone
    \/ IterYieldTransaction
    \/ IterPageDone
    \/ GetTransaction
    \/ GetNextWindow
    \/ GetRequest
    \/ GetSubscription

Spec == Init /\ [][Next]_vars

\* get_transaction alone. It is one synchronous call: once called, its loop
\* runs on as long as each request returns.
GetNext ==
    \/ GetTransaction
    \/ GetNextWindow
    \/ GetRequest

SpecGetTransaction ==
    Init /\ [][GetNext]_vars /\ WF_vars(GetNextWindow) /\ WF_vars(GetRequest)

-----------------------------------------------------------------------------
(* PayPalSession.request *)

\* The state after PayPalSession(client, client_secret).
SessionInit ==
    /\ srv = "any"
    /\ ClientIdle
    /\ \E id \in {"client-1", "client-2"} : sess = NewSession(id, "secret")
    /\ err = NoErr
    /\ view = NoView
    /\ sel = NoSel
    /\ hook = NoHook

\* lines 154-155 and 162: the request goes to the parent class; any response
\* but Unauthorized is returned.
SessionRequest ==
    /\ sess.pc = "idle"
    /\ \E c \in SessionCalls, status \in Statuses :
          LET request == SentRequest(c.method, c.url, c.kwargs)
              s == [sess EXCEPT !.method = c.method, !.url = c.url, !.kwargs = c.kwargs,
                                !.sent = <<[request |-> request, depth |-> 1]>>,
                                !.statuses = <<status>>]
          IN  IF Unauthorized(status)
              THEN sess' = [s EXCEPT !.pc = "running",
                                     !.stack = <<[request |-> request,
                                                  pc |-> "unauthorized"]>>]
              ELSE sess' \in ReturnResponse(s, status)
    /\ UNCHANGED <<clientVars, err, view, sel, hook>>

\* lines 156-160: the topmost frame calls fetch_token for the token path of
\* its request's site. fetch_token is the parent class's, and what it does
\* is any of what its interface allows: it returns, or raises, having sent
\* nothing through this session; or it posts to the token URL through
\* self.request, which is this class's request, so the token request runs
\* lines 154-162 in a frame of its own: a response that is not Unauthorized
\* goes back to fetch_token, one that is has that frame fetch a token in
\* its turn, and at the recursion limit the call raises RecursionError.
SessionFetchToken ==
    /\ sess.pc = "running"
    /\ sess.stack[Len(sess.stack)].pc = "unauthorized"
    /\ LET depth == Len(sess.stack)
           arguments == FetchTokenArguments(sess.stack[depth], sess)
           token_request == SentRequest("POST", arguments.token_url,
                                        ("data" :> "grant_type=client_credentials"))
           fetching == [sess EXCEPT !.fetches = Append(@, [call |-> arguments,
                                                          after |-> Len(sess.sent),
                                                          depth |-> depth]),
                                    !.stack[depth].pc = "fetching"]
       IN  \/ sess' = [fetching EXCEPT !.stack[depth].pc = "fetched"]
           \/ sess' = [fetching EXCEPT !.pc = "raised", !.error = "OAuth2Error",
                                       !.stack = <<>>]
           \/ IF depth = MaxFrames
              THEN sess' = [fetching EXCEPT !.pc = "raised", !.error = "RecursionError",
                                            !.stack = <<>>]
              ELSE \E status \in Statuses :
                      LET s == [fetching EXCEPT
                                   !.sent = Append(@, [request |-> token_request,
                                                       depth |-> depth + 1]),
                                   !.statuses = Append(@, status)]
                      IN  IF Unauthorized(status)
                          THEN sess' = [s EXCEPT !.stack = Append(@, [request |-> token_request,
                                                                      pc |-> "unauthorized"])]
                          ELSE sess' \in ReturnResponse(s, status)
    /\ UNCHANGED <<clientVars, err, view, sel, hook>>

\* lines 161-162: fetch_token has returned; the topmost frame sends its
\* request again and returns the response whatever its status.
SessionRetry ==
    /\ sess.pc = "running"
    /\ sess.stack[Len(sess.stack)].pc = "fetched"
    /\ \E status \in Statuses :
          LET depth == Len(sess.stack)
              s == [sess EXCEPT !.sent = Append(@, [request |-> sess.stack[depth].request,
                                                    depth |-> depth]),
                                !.statuses = Append(@, status),
                                !.stack = SubSeq(@, 1, depth - 1)]
          IN  sess' \in ReturnResponse(s, status)
    /\ UNCHANGED <<clientVars, err, view, sel, hook>>

SessionNext ==
    \/ SessionRequest
    \/ SessionFetchToken
    \/ SessionRetry

SpecSession == SessionInit /\ [][SessionNext]_vars

-----------------------------------------------------------------------------
(* _get_json *)

GetJsonInit ==
    /\ srv = "any"
    /\ ClientIdle
    /\ sess = NoSess
    /\ err = NewErr
    /\ view = NoView
    /\ sel = NoSel
    /\ hook = NoHook

\* lines 263-266 and 270-271: the session answers; a success returns the body.
GetJsonCall ==
    /\ err.pc = "idle"
    /\ \E status \in Statuses, body \in ErrorBodies :
          err' = [err EXCEPT !.status = status, !.body = body,
                             !.pc = IF RaisesForStatus([status |-> status])
                                    THEN "except" ELSE "returned",
                             !.outcome = IF RaisesForStatus([status |-> status])
                                         THEN NoResult ELSE Result("APIResponse", body)]
    /\ UNCHANGED <<clientVars, sess, view, sel, hook>>

\* lines 267-268: the handler logs the body; formatting it may raise.
GetJsonLogError ==
    /\ err.pc = "except"
    /\ IF MissingKeys(err.body) # <<>>
       THEN err' = [err EXCEPT !.pc = "raised",
                               !.outcome = Result("KeyError", MissingKeys(err.body)[1])]
       ELSE err' = [err EXCEPT !.pc = "logged",
                               !.log = Append(@, ErrorRecord(err.body))]
    /\ UNCHANGED <<clientVars, sess, view, sel, hook>>

\* line 269: the HTTP error is raised again.
GetJsonReraise ==
    /\ err.pc = "logged"
    /\ err' = [err EXCEPT !.pc = "raised", !.outcome = Result("HTTPError", err.status)]
    /\ UNCHANGED <<clientVars, sess, view, sel, hook>>

GetJsonNext ==
    \/ GetJsonCall
    \/ GetJsonLogError
    \/ GetJsonReraise

SpecGetJson == GetJsonInit /\ [][GetJsonNext]_vars

-----------------------------------------------------------------------------
(* Transaction *)

\* The state after Transaction(response).
ViewInit ==
    /\ srv = "any"
    /\ ClientIdle
    /\ sess = NoSess
    /\ err = NoErr
    /\ \E response \in ViewResponses : view = NewView(response)
    /\ sel = NoSel
    /\ hook = NoHook

\* A call of one of the accessors made by _wrap_response.
ViewAccessor ==
    /\ view.pc = "idle"
    /\ \E name \in DOMAIN AccessorKeys :
          view' = [view EXCEPT !.method = name, !.pc = "done",
                               !.outcome = Accessor(name, view.response)]
    /\ UNCHANGED <<clientVars, sess, err, sel, hook>>

\* A call of cart_items: a generator whose body has not started.
ViewCartItems ==
    /\ view.pc = "idle"
    /\ view' = [view EXCEPT !.method = "cart_items", !.pc = "generator"]
    /\ UNCHANGED <<clientVars, sess, err, sel, hook>>

\* One __next__ of the generator of cart_items: it yields the next item
\* that converts, ends, or is left by an exception.
ViewCartNext ==
    /\ view.pc = "generator"
    /\ LET start == CartStart(view.response)
       IN  IF start.kind # "cart"
           THEN view' = [view EXCEPT !.pc = "done", !.outcome = start]
           ELSE LET n == CartNext(start.value[1].item_seq, start.value[1].default_name,
                                  IF view.index = 0 THEN 1 ELSE view.index)
                IN  IF n.kind = "CartItem"
                    THEN view' = [view EXCEPT !.index = n.index,
                                              !.yielded = Append(@, n.value[1]),
                                              !.from = Append(@, n.index - 1)]
                    ELSE view' = [view EXCEPT !.index = n.index, !.pc = "done",
                                              !.outcome = [kind |-> n.kind,
                                                           value |-> n.value]]
    /\ UNCHANGED <<clientVars, sess, err, sel, hook>>

\* A call of a method of the mapping: with a key, loaded or not, or with
\* another operand: the wrapped mapping itself, another mapping with the
\* same keys, an empty one, or a number.
ViewMapping ==
    /\ view.pc = "idle"
    /\ \E name \in {"__getitem__", "__iter__", "__len__", "__contains__", "get", "__eq__"} :
       \E key \in IF name \in {"__getitem__", "__contains__", "get"}
                  THEN {"transaction_info", "payer_info", "cart_info", "test_key"}
                  ELSE {""} :
       \E other \in IF name = "__eq__"
                    THEN {[is_mapping |-> TRUE, items |-> view.response],
                          [is_mapping |-> TRUE,
                           items |-> [k \in DOMAIN view.response |-> EmptyDict]],
                          [is_mapping |-> TRUE, items |-> EmptyDict],
                          [is_mapping |-> FALSE, items |-> EmptyDict]}
                    ELSE {[is_mapping |-> FALSE, items |-> EmptyDict]} :
          view' = [view EXCEPT !.method = name, !.pc = "done",
                               !.args = [key |-> key, other |-> other],
                               !.outcome = MappingMethod(name, view.response, key, other)]
    /\ UNCHANGED <<clientVars, sess, err, sel, hook>>

\* The caller goes on to its next operation on the Transaction, leaving
\* the result of the last, or the generator of cart_items where it stands;
\* raised tells whether an operation before has raised.
ViewAgain ==
    /\ view.pc \in {"done", "generator"}
    /\ view' = [NewView(view.response) EXCEPT
                   !.raised = view.raised \/ view.outcome.kind \in
                       {"MissingFieldError", "KeyError", "DivisionByZero",
                        "InvalidOperation"}]
    /\ UNCHANGED <<clientVars, sess, err, sel, hook>>

ViewNext ==
    \/ ViewAccessor
    \/ ViewCartItems
    \/ ViewCartNext
    \/ ViewMapping
    \/ ViewAgain

SpecTransaction == ViewInit /\ [][ViewNext]_vars

-----------------------------------------------------------------------------
(* Field selectors *)

\* The interpreter is one whose Flag classes iterate every member, or one
\* whose Flag classes iterate the members of one bit.
FieldsInit ==
    /\ srv = "any"
    /\ ClientIdle
    /\ sess = NoSess
    /\ err = NoErr
    /\ view = NoView
    /\ \E multibit \in BOOLEAN : sel = NewSel(multibit)
    /\ hook = NoHook

\* A selector made from members of one class with | : any value of the class.
FieldsSelector ==
    /\ sel.pc = "idle"
    /\ \E cls \in FieldClasses :
          \E value \in 0..Members(cls)[Len(Members(cls))].value :
              sel' = [sel EXCEPT !.cls = cls, !.op = "selector", !.value = value,
                                 !.pc = "selector"]
    /\ UNCHANGED <<clientVars, sess, err, view, hook>>

\* combine
FieldsCombine ==
    /\ sel.pc = "idle"
    /\ \E cls \in FieldClasses :
          \E fields \in {None} \cup { Some(l) : l \in FieldLists(cls) } :
              sel' = [sel EXCEPT !.cls = cls, !.op = "combine", !.fields = fields,
                                 !.value = Combine(cls, fields, sel.multibit),
                                 !.pc = "selector"]
    /\ UNCHANGED <<clientVars, sess, err, view, hook>>

\* from_arg
FieldsFromArg ==
    /\ sel.pc = "idle"
    /\ \E cls \in FieldClasses, arg \in FromArgArguments :
          LET found == FromArg(cls, arg)
          IN  sel' = [sel EXCEPT !.cls = cls, !.op = "from_arg", !.arg = arg,
                                 !.value = IF found.kind = "flag" THEN found.value[1] ELSE 0,
                                 !.pc = IF found.kind = "flag" THEN "selector" ELSE "raised",
                                 !.outcome = IF found.kind = "flag" THEN NoResult ELSE found]
    /\ UNCHANGED <<clientVars, sess, err, view, hook>>

\* param_value of the selector
FieldsParamValue ==
    /\ sel.pc = "selector"
    /\ sel' = [sel EXCEPT !.pc = "done",
                          !.outcome = Result("str", ParamValue(sel.cls, sel.value,
                                                               sel.multibit))]
    /\ UNCHANGED <<clientVars, sess, err, view, hook>>

\* is_base_field of the selector
FieldsIsBaseField ==
    /\ sel.pc = "selector"
    /\ sel' = [sel EXCEPT !.pc = "done", !.outcome = IsBaseField(sel.value)]
    /\ UNCHANGED <<clientVars, sess, err, view, hook>>

FieldsNext ==
    \/ FieldsSelector
    \/ FieldsCombine
    \/ FieldsFromArg
    \/ FieldsParamValue
    \/ FieldsIsBaseField

SpecFields == FieldsInit /\ [][FieldsNext]_vars

-----------------------------------------------------------------------------
(* The exception hook *)

\* The state after sys.excepthook = ExceptHook(logger), or ExceptHook()
\* with the root logger, at the level of the logger's configuration.
HookInit ==
    /\ srv = "any"
    /\ ClientIdle
    /\ sess = NoSess
    /\ err = NoErr
    /\ view = NoView
    /\ sel = NoSel
    /\ \E debug \in BOOLEAN : hook = [NewHook EXCEPT !.debug = debug]

\* The program raises an exception nothing catches.
HookRaise ==
    /\ hook.pc = "idle"
    /\ \E exc \in Exceptions : hook' = [hook EXCEPT !.pc = "raised", !.exc = Some(exc)]
    /\ UNCHANGED <<clientVars, sess, err, view, sel>>

\* set_loglevel, which the tool's main calls with the level of its
\* --loglevel option: the level is set on the hook's logger, or on the
\* root logger the hook's logger takes its level from.
HookSetLoglevel ==
    /\ hook.pc = "idle"
    /\ \E loglevel \in {"DEBUG", "INFO", "WARNING", "ERROR", "CRITICAL"} :
          hook' = [hook EXCEPT !.debug = (loglevel = "DEBUG")]
    /\ UNCHANGED <<clientVars, sess, err, view, sel>>

\* __call__: the interpreter hands the exception to the hook, which logs
\* it and leaves the process. An interrupt is not logged. Line 93 logs
\* the critical record; lines 94-96 log at DEBUG the text of
\* traceback.format_exception, its heading followed by the frames and the
\* line of the exception, for which the exception stands here; the logger
\* emits that record if it is enabled for DEBUG.
HookCall ==
    /\ hook.pc = "raised"
    /\ LET traceback == [levelname |-> "DEBUG",
                         message |-> <<"Traceback (most recent call last):\n",
                                       hook.exc[1]>>]
       IN  hook' = [hook EXCEPT !.pc = "exited",
                                !.log = IF ExitCode(hook.exc[1]).kind = "killed" THEN <<>>
                                        ELSE <<CriticalRecord(hook.exc[1])>>
                                                 \o (IF hook.debug THEN <<traceback>>
                                                     ELSE <<>>),
                                !.outcome = ExitCode(hook.exc[1])]
    /\ UNCHANGED <<clientVars, sess, err, view, sel>>

HookNext ==
    \/ HookSetLoglevel
    \/ HookRaise
    \/ HookCall

SpecExceptHook == HookInit /\ [][HookNext]_vars

-----------------------------------------------------------------------------
(* Properties of the window generator *)

GenCalled == gen.st # "none"

GenForward == GenCalled /\ ~DtGreater(gen.start_date, gen.end_date)

GenBackward == GenCalled /\ DtGreater(gen.start_date, gen.end_date)

GenExhausted == gen.st = "done"

LastWindow == windows[Len(windows)]

SameDates(a, b) == a.start_date = b.start_date /\ a.end_date = b.end_date

\* Every request of a call that windows its dates (iter_transactions,
\* get_transaction) carries the dates of a window the generator yielded; with
\* one request per window (get_transaction, or single-page responses) the
\* nth request carries those of the nth window.
OneRequestPerWindow == op = "get" \/ srv = "single_page_empty"

RequestsFollowWindows ==
    GenCalled => \A j \in 1..Len(requests) :
        /\ \E i \in 1..Len(windows) : SameDates(requests[j], windows[i])
        /\ OneRequestPerWindow => j <= Len(windows) /\ SameDates(requests[j], windows[j])

WindowSeconds == WindowDays * SecondsPerDay

\* C1: given start <= end, the windows are contiguous and run forward in
\* time: the first starts at start, each starts where the one before it
\* ended and ends no earlier than it starts, and once the generator is
\* exhausted the last one ends at end; every request carries its window.
C1_ForwardContiguous ==
    GenForward =>
        /\ windows # <<>> => windows[1].start_date = IsoFormat(gen.start_date)
        /\ \A i \in 1..Len(windows) : windows[i].start_date <= windows[i].end_date
        /\ \A i \in 2..Len(windows) : windows[i].start_date = windows[i - 1].end_date
        /\ (GenExhausted /\ windows # <<>>) => LastWindow.end_date = IsoFormat(gen.end_date)
        /\ RequestsFollowWindows

C1_Witness ==
    /\ op = "iter" /\ pc = "done" /\ GenForward
    /\ Len(windows) = 3 /\ Len(requests) = 3
    /\ windows[1].end_date < windows[2].end_date

\* C2: given start > end, the windows are contiguous and run backward in
\* time: the first ends at start (the later bound), each ends where the one
\* before it started, and once the generator is exhausted the last one
\* starts at end (the earlier bound); every request carries its window.
C2_BackwardContiguous ==
    GenBackward =>
        /\ windows # <<>> => windows[1].end_date = IsoFormat(gen.start_date)
        /\ \A i \in 1..Len(windows) : windows[i].start_date <= windows[i].end_date
        /\ \A i \in 2..Len(windows) : windows[i].end_date = windows[i - 1].start_date
        /\ GenExhausted => LastWindow.start_date = IsoFormat(gen.end_date)
        /\ RequestsFollowWindows

C2_Witness ==
    /\ op = "get" /\ pc = "raised" /\ GenBackward /\ GenExhausted
    /\ Len(windows) = 3 /\ Len(requests) = 3
    /\ windows[2].start_date < windows[1].start_date

\* The bounds are a whole number of days apart.
WholeDaysApart ==
    /\ GenCalled
    /\ gen.start_date.us = gen.end_date.us
    /\ (gen.end_date.sec - gen.start_date.sec) % SecondsPerDay = 0

DaysApart ==
    IF gen.end_date.sec >= gen.start_date.sec
    THEN (gen.end_date.sec - gen.start_date.sec) \div SecondsPerDay
    ELSE (gen.start_date.sec - gen.end_date.sec) \div SecondsPerDay

\* C3 as stated: for bounds D whole days apart the exhausted generator has
\* yielded floor(D/30) + 1 windows.
C3_FloorPlusOne ==
    (GenExhausted /\ WholeDaysApart) => Len(windows) = (DaysApart \div WindowDays) + 1

\* C3 as amended: for bounds D whole days apart the exhausted generator has
\* yielded ceil(D/30) windows, forward and backward alike (floor(D/30) + 1
\* unless D is a multiple of 30, and none for D = 0), and with single-page
\* responses that many requests were sent.
C3_Ceiling ==
    (GenExhausted /\ WholeDaysApart) =>
        /\ Len(windows) = (DaysApart + WindowDays - 1) \div WindowDays
        /\ DaysApart % WindowDays # 0 => Len(windows) = (DaysApart \div WindowDays) + 1
        /\ OneRequestPerWindow => Len(requests) = Len(windows)

C3_Witness ==
    /\ op = "get" /\ pc = "raised" /\ GenBackward /\ GenExhausted
    /\ WholeDaysApart /\ DaysApart = 2 * WindowDays
    /\ Len(requests) = 2

\* C4 as stated: in every window, and so in every request, start_date is
\* strictly earlier than end_date and at most 30 days before it.
C4_StrictlyEarlier ==
    \A i \in 1..Len(windows) :
        /\ windows[i].start_date < windows[i].end_date
        /\ windows[i].end_date - windows[i].start_date <= WindowSeconds

\* C4 as amended: in every window, and so in every request, start_date is
\* not later than end_date and at most 30 days before it; it is strictly
\* earlier whenever the two bounds have the same fraction of a second.
C4_NotLater ==
    /\ \A i \in 1..Len(windows) :
          /\ windows[i].start_date <= windows[i].end_date
          /\ windows[i].end_date - windows[i].start_date <= WindowSeconds
          /\ gen.start_date.us = gen.end_date.us =>
                windows[i].start_date < windows[i].end_date
    /\ RequestsFollowWindows

C4_Witness ==
    /\ Len(requests) = 2
    /\ requests[1].end_date - requests[1].start_date = WindowSeconds
    /\ requests[2].start_date < requests[2].end_date
    /\ requests[2].end_date - requests[2].start_date < WindowSeconds

\* C5 as stated: for start equal to end the exhausted generator has yielded
\* one window, whose two dates are that instant.
C5_OneWindow ==
    (GenExhausted /\ gen.start_date = gen.end_date) =>
        /\ Len(windows) = 1
        /\ windows[1].start_date = IsoFormat(gen.start_date)
        /\ windows[1].end_date = IsoFormat(gen.start_date)

\* C5 as amended: for start equal to end the generator yields no window at
\* all, and no request is sent.
C5_NoWindow ==
    (GenCalled /\ gen.start_date = gen.end_date) => windows = <<>> /\ requests = <<>>

C5_Witness ==
    /\ op = "iter" /\ pc = "done" /\ GenExhausted
    /\ gen.start_date = gen.end_date
    /\ windows = <<>>

-----------------------------------------------------------------------------
(* Properties of the pager *)

\* The ith request of the pager of the current window, and its response.
PagerRequest(i) == requests[Len(requests) - pager.count + i]

PagerResponse(i) == responses[Len(responses) - pager.count + i]

\* So far every response of the window reports T pages in all and answers
\* the request for page N with page N.
UniformPages(T) ==
    \A i \in 1..pager.count :
        /\ PagerResponse(i).status = HttpOk
        /\ PagerResponse(i).page = i
        /\ PagerResponse(i).total_pages = T

\* C6: when every response of a window reports the same total_pages = T and
\* answers the request for page N with page = N, the pager never sends more
\* than T requests, the Nth carries page = N, and when the pager is exhausted
\* it has sent exactly T.
C6_TotalPagesRequests ==
    op = "iter" =>
        \A T \in PageNumbers :
            UniformPages(T) =>
                /\ pager.count <= T
                /\ \A i \in 1..pager.count : PagerRequest(i).page = <<i>>
                /\ pager.st = "done" => pager.count = T

C6_Witness ==
    /\ op = "iter" /\ pager.st = "done"
    /\ UniformPages(3) /\ pager.count = 3
    /\ PagerRequest(3).page = <<3>>

\* C7: the first request of a window carries page = 1; a further request is
\* sent only after a response r with r.page < r.total_pages and carries
\* page = r.page + 1; the pager is exhausted only after a response with
\* r.page >= r.total_pages, so never without a request.
C7_PagesFollowResponses ==
    op = "iter" =>
        /\ pager.count >= 1 => PagerRequest(1).page = <<1>>
        /\ \A i \in 2..pager.count :
              /\ PagerResponse(i - 1).page < PagerResponse(i - 1).total_pages
              /\ PagerRequest(i).page = <<PagerResponse(i - 1).page + 1>>
        /\ pager.st = "done" =>
              /\ pager.count >= 1
              /\ PagerResponse(pager.count).page >= PagerResponse(pager.count).total_pages
        /\ (pc \in {"windows", "done"} /\ windows # <<>>) => pager.st = "done"

\* The third request of a window asks for page 2 again, as the response to
\* the second said page 1 of 2: a local counter would have asked for page 3.
C7_Witness ==
    /\ op = "iter" /\ pager.count = 3
    /\ PagerRequest(2).page = <<2>> /\ PagerResponse(2).page = 1
    /\ PagerRequest(3).page = <<2>>

-----------------------------------------------------------------------------
(* Properties of iter_transactions *)

RECURSIVE DetailsOf(_)
DetailsOf(rs) ==
    IF rs = <<>> THEN <<>> ELSE rs[1].transaction_details \o DetailsOf(Tail(rs))

\* The elements of the pages received that the loops have passed.
Consumed ==
    IF pc = "items"
    THEN DetailsOf(SubSeq(responses, 1, Len(responses) - 1))
             \o SubSeq(page.details, 1, page.index - 1)
    ELSE DetailsOf(responses)

\* C8: what iter_transactions has yielded is, element for element, the
\* concatenation of the transaction_details of the responses in the order
\* received (windows, then pages, then items), up to where its loops stand,
\* each element wrapped once; at the end it is the whole concatenation.
C8_YieldsConcatenation ==
    op = "iter" =>
        /\ Len(yielded) = Len(Consumed)
        /\ \A i \in 1..Len(yielded) : yielded[i] = [response |-> Consumed[i]]
        /\ pc = "items" => page.details = responses[Len(responses)].transaction_details
        /\ pc = "done" => Len(yielded) = Len(DetailsOf(responses))

C8_Witness ==
    /\ op = "iter" /\ pc = "done"
    /\ Len(windows) = 2 /\ Len(responses) = 3
    /\ Len(yielded) = 6
    /\ yielded[1] = [response |-> TxnSource("B")]
    /\ yielded[2] = [response |-> TxnSource("A")]

AllEmpty ==
    \A i \in 1..Len(responses) :
        responses[i].status = HttpOk /\ responses[i].transaction_details = <<>>

\* The last request sent for the window w.
LastRequestOf(w, j) ==
    /\ SameDates(requests[j], windows[w])
    /\ j = Len(requests) \/ ~SameDates(requests[j + 1], windows[w])

\* C9: while every page received is empty nothing is yielded, and when
\* iter_transactions ends every window was asked for its page 1 and for
\* every further page until a response said it was the last.
C9_EmptyPagesAllRequested ==
    (op = "iter" /\ AllEmpty) =>
        /\ yielded = <<>>
        /\ pc = "done" =>
              \A w \in 1..Len(windows) :
                  /\ \E j \in 1..Len(requests) :
                        SameDates(requests[j], windows[w]) /\ requests[j].page = <<1>>
                  /\ \A j \in 1..Len(requests) :
                        SameDates(requests[j], windows[w]) =>
                            (LastRequestOf(w, j)
                                <=> responses[j].page >= responses[j].total_pages)

C9_Witness ==
    /\ op = "iter" /\ pc = "done" /\ AllEmpty
    /\ Len(windows) = 2 /\ Len(requests) = 3
    /\ yielded = <<>>

-----------------------------------------------------------------------------
(* Properties of get_transaction *)

LastResponse == responses[Len(responses)]

\* C10: called with start_date <= end_date, get_transaction sends one request
\* per window, newest window first; it sends none after a response with a
\* non-empty transaction_details, and returns exactly then, the first element
\* of that response wrapped as a Transaction.
C10_FirstMatchNewestFirst ==
    (op = "get" /\ ~DtLess(gen.start_date, gen.end_date)) =>
        /\ Len(requests) <= Len(windows)
        /\ \A j \in 1..Len(requests) : SameDates(requests[j], windows[j])
        /\ requests # <<>> => requests[1].end_date = IsoFormat(gen.start_date)
        /\ \A j \in 2..Len(requests) :
              /\ requests[j].end_date = requests[j - 1].start_date
              /\ requests[j].end_date <= requests[j - 1].end_date
        /\ \A j \in 1..(Len(responses) - 1) :
              responses[j].status = HttpOk /\ responses[j].transaction_details = <<>>
        /\ pc = "returned" <=>
              /\ responses # <<>>
              /\ LastResponse.status = HttpOk
              /\ LastResponse.transaction_details # <<>>
        /\ pc = "returned" =>
              result = [kind |-> "Transaction",
                        value |-> <<[response |-> LastResponse.transaction_details[1]]>>]

C10_Witness ==
    /\ op = "get" /\ pc = "returned"
    /\ Len(requests) = 2
    /\ requests[2].end_date < requests[1].end_date
    /\ Len(LastResponse.transaction_details) = 2
    /\ result.value[1] = [response |-> TxnSource("B")]

\* The generator's loop would take another window.
WindowRemains == GenCalled /\ Pred(Backward(gen.start_date, gen.end_date), gen.next_date, gen.end_date)

\* C11: get_transaction raises the not-found error, a ValueError carrying
\* the transaction id, exactly when its window generator is exhausted: no
\* window remains, the windows run from end_date to start_date, each was
\* requested once and every response was a success with empty
\* transaction_details. Any other ending had a response that was not.
C11_NotFoundAfterEveryWindow ==
    op = "get" =>
        /\ result.kind = "ValueError" <=> GenExhausted
        /\ result.kind = "ValueError" =>
              /\ pc = "raised"
              /\ result.value = <<call.transaction_id>>
              /\ ~WindowRemains
              /\ Len(requests) = Len(windows)
              /\ \A j \in 1..Len(windows) : SameDates(requests[j], windows[j])
              /\ \A j \in 1..Len(responses) :
                    responses[j].status = HttpOk /\ responses[j].transaction_details = <<>>
              /\ windows # <<>> =>
                    LET backward == Backward(gen.start_date, gen.end_date)
                    IN  /\ windows[1][Key1(backward)] = IsoFormat(gen.start_date)
                        /\ LastWindow[Key2(backward)] = IsoFormat(gen.end_date)
                        /\ \A i \in 2..Len(windows) :
                              windows[i][Key1(backward)] = windows[i - 1][Key2(backward)]
        /\ result.kind \in {"Transaction", "HTTPError"} =>
              /\ responses # <<>>
              /\ ~(LastResponse.status = HttpOk /\ LastResponse.transaction_details = <<>>)

C11_Witness ==
    /\ op = "get" /\ result.kind = "ValueError"
    /\ result.value = <<"A">>
    /\ GenBackward
    /\ Len(windows) = 2 /\ Len(requests) = 2
    /\ srv = "any"

-----------------------------------------------------------------------------
(* Properties of PayPalSession.request *)

TheCall == SentRequest(sess.method, sess.url, sess.kwargs)

\* The requests the call's own frame has sent.
OwnSent == { i \in 1..Len(sess.sent) : sess.sent[i].depth = 1 }

SessionEnded == sess.pc \in {"returned", "raised"}

\* C12: a call of request sends at most two requests of its own and fetches
\* at most one token. If the first response is 401, one token is fetched
\* after the first request, with the token path of the request's site and
\* the session's credentials, then the same method, URL and arguments are
\* sent once more and the second response is returned whatever its status,
\* a second 401 included. If the first response is not 401 it is returned,
\* and nothing is fetched or sent again.
C12_OneFetchOneRetry ==
    sess.pc # "none" =>
        /\ Cardinality(OwnSent) <= 2 /\ Len(sess.fetches) <= 1
        /\ \A i \in OwnSent : sess.sent[i].request = TheCall
        /\ \A i \in 1..Len(sess.fetches) :
              /\ sess.fetches[i].after = 1
              /\ sess.statuses[1] = HttpUnauthorized
              /\ sess.fetches[i].call.token_url = Url(sess.url.root, "/v1/oauth2/token")
              /\ sess.fetches[i].call.client_id = sess.client_id
        /\ SessionEnded =>
              IF sess.statuses[1] = HttpUnauthorized
              THEN /\ sess.pc = "returned"
                   /\ Len(sess.fetches) = 1 /\ Cardinality(OwnSent) = 2
                   /\ sess.returned = <<sess.statuses[Len(sess.statuses)]>>
              ELSE /\ sess.pc = "returned"
                   /\ sess.fetches = <<>> /\ Len(sess.sent) = 1
                   /\ sess.returned = <<sess.statuses[1]>>

\* The API and then the token endpoint answer 401, as to a session with a
\* wrong secret: the token request fetches a token in its turn, and so on
\* until the recursion limit ends the call with RecursionError; the first
\* request is never sent again.
C12_Witness ==
    /\ sess.pc = "raised" /\ sess.error = "RecursionError"
    /\ \A i \in 1..Len(sess.statuses) : sess.statuses[i] = HttpUnauthorized
    /\ Len(sess.fetches) = MaxFrames
    /\ \A i \in 1..Len(sess.fetches) :
          sess.fetches[i].call.token_url = Url(sess.url.root, "/v1/oauth2/token")
    /\ Cardinality(OwnSent) = 1

-----------------------------------------------------------------------------
(* Properties of _get_json *)

\* The body has the fields the record is made of.
HasRecordFields(body) ==
    /\ Has(body, "name") /\ Has(body, "message")
    /\ Has(body, "details") =>
          \A i \in 1..Len(body["details"]) :
              Has(body["details"][i], "issue") /\ Has(body["details"][i], "location")

DetailCount(body) == IF Has(body, "details") THEN Len(body["details"]) ELSE 0

\* C13: a response with a status of 400 or more (400, 401, 403, 404, 500)
\* whose body has the fields of an error makes _get_json log exactly one
\* ERROR record, "{name}: {message}" followed by the em dash separator and
\* "{issue} (in {location})" for each detail in order, and raise the HTTP error only
\* after logging; a success logs nothing.
C13_LogsOnceThenRaises ==
    err.pc # "none" =>
        /\ Len(err.log) <= 1
        /\ err.status < 400 => err.log = <<>>
        /\ err.outcome.kind = "HTTPError" =>
              err.status >= 400 /\ Len(err.log) = 1 /\ err.outcome.value = <<err.status>>
        /\ (err.status >= 400 /\ HasRecordFields(err.body)) =>
              /\ err.pc \in {"except", "logged", "raised"}
              /\ err.pc = "except" <=> err.log = <<>>
              /\ err.pc = "raised" => err.outcome.kind = "HTTPError"
              /\ err.log # <<>> =>
                    LET m == err.log[1].message
                    IN  /\ err.log[1].levelname = "ERROR"
                        /\ Len(m) = 3 + 5 * DetailCount(err.body)
                        /\ SubSeq(m, 1, 3) = <<err.body["name"], ": ", err.body["message"]>>
                        /\ \A i \in 1..DetailCount(err.body) :
                              SubSeq(m, 5 * i - 1, 5 * i + 3)
                                  = <<EmDashSeparator, err.body["details"][i]["issue"], " (in ",
                                      err.body["details"][i]["location"], ")">>

C13_Witness ==
    /\ err.pc = "raised"
    /\ err.status = 404
    /\ err.outcome = [kind |-> "HTTPError", value |-> <<404>>]
    /\ Len(err.log) = 1
    /\ err.log[1].message = <<"BAD_REQUEST", ": ", "Test error", EmDashSeparator, "i2",
                              " (in ", "body", ")", EmDashSeparator, "i1", " (in ", "test", ")">>

-----------------------------------------------------------------------------
(* Properties of Transaction *)

Accessed == view.pc = "done" /\ view.method \in DOMAIN AccessorKeys

KeyPath == AccessorKeys[view.method]

\* The key of the accessor's path at index is the first the response lacks.
FirstAbsentAt(index) ==
    LET r == view.response
        k == KeyPath
    IN  /\ index <= Len(k)
        /\ index = 1 => ~Has(r, k[1])
        /\ index = 2 => Has(r, k[1]) /\ ~Has(r[k[1]], k[2])
        /\ index = 3 => Has(r, k[1]) /\ Has(r[k[1]], k[2]) /\ ~Has(r[k[1]][k[2]], k[3])

\* C14: an accessor whose first key is absent from the response raises
\* MissingFieldError; one whose first key is present and a later key absent
\* raises a KeyError that is not a MissingFieldError. cart_items raises
\* MissingFieldError, when its first item is asked for, exactly when
\* cart_info is absent. On an empty response every one of them raises
\* MissingFieldError.
C14_MissingFieldOrMissingKey ==
    /\ Accessed =>
          /\ FirstAbsentAt(1) <=> view.outcome.kind = "MissingFieldError"
          /\ (FirstAbsentAt(2) \/ FirstAbsentAt(3)) => view.outcome.kind = "KeyError"
          /\ \A i \in 1..3 : FirstAbsentAt(i) => view.outcome.value[1].keys = SubSeq(KeyPath, 1, i)
    /\ (view.pc = "done" /\ view.method = "cart_items") =>
          /\ ~Has(view.response, "cart_info") <=> view.outcome.kind = "MissingFieldError"
          /\ view.outcome.kind = "MissingFieldError" => view.yielded = <<>>
    /\ ((Accessed \/ (view.pc = "done" /\ view.method = "cart_items"))
            /\ DOMAIN view.response = {}) =>
          view.outcome.kind = "MissingFieldError"

C14_Witness ==
    /\ Accessed /\ view.method = "payer_fullname"
    /\ Has(view.response, "payer_info") /\ Has(view.response["payer_info"], "payer_name")
    /\ view.outcome.kind = "KeyError"
    /\ view.outcome.value[1].keys = <<"payer_info", "payer_name", "alternate_full_name">>

\* C15: with transaction_info loaded, fee_amount returns None when it has
\* no fee_amount key and the parsed Amount when it has one; without
\* transaction_info it raises MissingFieldError. The accessors of the other
\* subfields of transaction_info raise KeyError when theirs is absent.
C15_FeeAmountOptional ==
    Accessed =>
        /\ view.method = "fee_amount" =>
              IF ~Has(view.response, "transaction_info")
              THEN view.outcome.kind = "MissingFieldError"
              ELSE IF ~Has(view.response["transaction_info"], "fee_amount")
              THEN view.outcome = [kind |-> "returned", value |-> <<None>>]
              ELSE view.outcome =
                       [kind |-> "Amount",
                        value |-> <<[number |-> [neg |-> TRUE, digits |-> <<4, 9>>, exp |-> -2],
                                     currency |-> "USD"]>>]
        /\ (view.method \in {"amount", "initiation_date", "status", "transaction_id",
                             "updated_date"} /\ FirstAbsentAt(2)) =>
              view.outcome.kind = "KeyError"

C15_Witness ==
    /\ Accessed /\ view.method = "fee_amount"
    /\ Has(view.response, "transaction_info")
    /\ Has(view.response["transaction_info"], "transaction_amount")
    /\ ~Has(view.response["transaction_info"], "fee_amount")
    /\ view.outcome = [kind |-> "returned", value |-> <<None>>]

CartDone ==
    /\ view.pc = "done" /\ view.method = "cart_items"
    /\ Has(view.response, "cart_info")
    /\ Has(view.response["cart_info"], "item_details")

ItemSeq == view.response["cart_info"]["item_details"]

DefaultName == CartStart(view.response).value[1].default_name

Converts(source) == CartItemFromApi(source, DefaultName).kind = "CartItem"

\* C16: once cart_items has been consumed, it has ended without an
\* exception and has yielded, in the order of the sources, the item of every
\* source whose conversion succeeds: a source whose conversion fails is
\* dropped and nothing else.
C16_FailuresSkipped ==
    CartDone =>
        LET good == SelectSeq(ItemSeq, Converts)
        IN  /\ view.outcome.kind = "StopIteration"
            /\ Len(view.yielded) = Len(good)
            /\ \A i \in 1..Len(good) :
                  view.yielded[i] = CartItemFromApi(good[i], DefaultName).value[1]

\* A source without item_amount is skipped; one with a quantity of zero and
\* no unit price ends the iteration with DivisionByZero, and the source
\* after it is never converted.
C16_Witness ==
    /\ CartDone
    /\ Len(ItemSeq) = 3
    /\ ~Has(ItemSeq[1], "item_amount")
    /\ Has(ItemSeq[2], "item_amount") /\ ItemSeq[2]["item_quantity"] = <<"0">>
    /\ Converts(ItemSeq[3])
    /\ view.yielded = <<>>
    /\ view.outcome.kind = "DivisionByZero"

\* Exact arithmetic on coefficients, for stating what a quotient is.
RECURSIVE MulDigits(_, _, _)
MulDigits(digits, k, carry) ==
    IF digits = <<>> THEN (IF carry = 0 THEN <<>> ELSE Str(carry))
    ELSE LET v == digits[Len(digits)] * k + carry
         IN  Append(MulDigits(SubSeq(digits, 1, Len(digits) - 1), k, v \div 10), v % 10)

RECURSIVE Decr(_)
Decr(digits) ==
    IF digits[Len(digits)] > 0 THEN [digits EXCEPT ![Len(digits)] = @ - 1]
    ELSE Append(Decr(SubSeq(digits, 1, Len(digits) - 1)), 9)

Zeros(n) == [i \in 1..n |-> 0]

DigitsLess(x, y) ==
    LET a == StripLeadingZeros(x)
        b == StripLeadingZeros(y)
    IN  \/ Len(a) < Len(b)
        \/ /\ Len(a) = Len(b)
           /\ \E i \in 1..Len(a) : a[i] < b[i] /\ \A j \in 1..(i - 1) : a[j] = b[j]

\* unit * quantity = total, exactly
ProductIsTotal(unit, quantity, total) ==
    LET shift == total.exp - (unit.exp + quantity.exp)
    IN  /\ shift >= 0
        /\ StripLeadingZeros(MulDigits(unit.digits, ToInt(quantity.digits), 0))
              = StripLeadingZeros(total.digits \o Zeros(shift))
        /\ (unit.neg # quantity.neg) = total.neg

\* unit * quantity is less than one quantity in unit's last place from total
ProductNearTotal(unit, quantity, total) ==
    LET shift == total.exp - (unit.exp + quantity.exp)
        t == total.digits \o Zeros(shift)
        q == ToInt(quantity.digits)
    IN  /\ shift >= 0
        /\ DigitsLess(MulDigits(Decr(unit.digits), q, 0), t)
        /\ DigitsLess(t, MulDigits(Incr(unit.digits), q, 0))
        /\ (unit.neg # quantity.neg) = total.neg

SourceOf(i) == ItemSeq[view.from[i]]

GivenQuantity(source) ==
    IF Has(source, "item_quantity") THEN ParseDecimal(source["item_quantity"])
    ELSE [neg |-> FALSE, digits |-> <<1>>, exp |-> 0]

\* C17 as stated: quantity is item_quantity, or 1; unit_price is
\* item_unit_price whenever the key is present, otherwise it has the
\* currency of total_price and multiplied by quantity it is total_price.
C17_ProductEqualsTotal ==
    \A i \in 1..Len(view.yielded) :
        LET source == SourceOf(i)
            item == view.yielded[i]
        IN  /\ item.quantity = GivenQuantity(source)
            /\ IF Has(source, "item_unit_price")
               THEN /\ Has(source["item_unit_price"], "value")
                    /\ item.unit_price.number = ParseDecimal(source["item_unit_price"]["value"])
               ELSE /\ item.unit_price.currency = item.total_price.currency
                    /\ ProductIsTotal(item.unit_price.number, item.quantity,
                                      item.total_price.number)

HasUnitPrice(source) ==
    /\ Has(source, "item_unit_price")
    /\ Has(source["item_unit_price"], "value")
    /\ Has(source["item_unit_price"], "currency_code")

\* C17, amended: quantity is item_quantity, or 1; unit_price is
\* item_unit_price when that key holds a value and a currency code;
\* otherwise it has the currency of total_price and is total_price /
\* quantity to at most 28 significant digits: multiplied by quantity it is
\* total_price when it has fewer than 28 digits; when it has 28 the
\* product, taken exactly, is within one quantity in its last digit of
\* total_price, and may or may not be total_price.
C17_DerivedUnitPrice ==
    \A i \in 1..Len(view.yielded) :
        LET source == SourceOf(i)
            item == view.yielded[i]
            unit == item.unit_price.number
        IN  /\ item.quantity = GivenQuantity(source)
            /\ IF HasUnitPrice(source)
               THEN /\ unit = ParseDecimal(source["item_unit_price"]["value"])
                    /\ item.unit_price.currency = source["item_unit_price"]["currency_code"]
               ELSE /\ item.unit_price.currency = item.total_price.currency
                    /\ Len(unit.digits) <= 28
                    /\ IF Len(unit.digits) < 28
                       THEN ProductIsTotal(unit, item.quantity, item.total_price.number)
                       ELSE ProductNearTotal(unit, item.quantity, item.total_price.number)

\* A quantity defaulted to 1, 15.98 / 2 = 7.99, and a derived unit price of
\* 28 digits whose exact product with the quantity is not the total.
C17_Witness ==
    /\ CartDone /\ Len(view.yielded) = 3
    /\ ~Has(SourceOf(1), "item_quantity") /\ view.yielded[1].quantity.digits = <<1>>
    /\ ~Has(SourceOf(2), "item_unit_price")
    /\ view.yielded[2].total_price.number = [neg |-> FALSE, digits |-> <<1, 5, 9, 8>>, exp |-> -2]
    /\ view.yielded[2].quantity = [neg |-> FALSE, digits |-> <<2>>, exp |-> 0]
    /\ view.yielded[2].unit_price =
           [number |-> [neg |-> FALSE, digits |-> <<7, 9, 9>>, exp |-> -2], currency |-> "USD"]
    /\ Len(view.yielded[3].unit_price.number.digits) = 28
    /\ ~HasUnitPrice(SourceOf(3))
    /\ ~ProductIsTotal(view.yielded[3].unit_price.number, view.yielded[3].quantity,
                       view.yielded[3].total_price.number)

-----------------------------------------------------------------------------
(* Properties of the field selectors *)

\* The flag declared at place i, of value 2^(i-1), is in the value.
HasFlag(value, i) == (value \div (2 ^ (i - 1))) % 2 = 1

\* The places of the base flags of a class: all but the last, ALL.
BasePlaces(cls) == 1..(Len(Members(cls)) - 1)

\* The name the API knows the flag at place i by.
ApiName(cls, i) ==
    IF cls = "TransactionFields"
    THEN Lower(Members(cls)[i].name) \o <<"_", "i", "n", "f", "o">>
    ELSE Lower(Members(cls)[i].name)

\* text.split(",") of a text that is not empty
RECURSIVE SplitOnComma(_)
SplitOnComma(text) ==
    LET commas == { i \in 1..Len(text) : text[i] = "," }
    IN  IF commas = {} THEN <<text>>
        ELSE LET first == CHOOSE i \in commas : \A j \in commas : i <= j
             IN  <<SubSeq(text, 1, first - 1)>>
                     \o SplitOnComma(SubSeq(text, first + 1, Len(text)))

ParamValueReturned == sel.pc = "done" /\ sel.outcome.kind = "str"

ReturnedNames ==
    IF sel.outcome.value[1] = <<>> THEN <<>> ELSE SplitOnComma(sel.outcome.value[1])

\* C18: param_value of a selector is the API names, joined by commas, of
\* the base flags the selector contains, each once and in the order of
\* declaration: lower-case flag names, with the suffix _info for
\* TransactionFields and without it for SubscriptionFields. ALL is never
\* one of the names. For TRANSACTION | PAYER it is
\* "transaction_info,payer_info".
C18_ParamValueBaseFlags ==
    ParamValueReturned =>
        LET contained == { i \in BasePlaces(sel.cls) : HasFlag(sel.value, i) }
        IN  /\ Len(ReturnedNames) = Cardinality(contained)
            /\ \A i \in contained :
                  ReturnedNames[Cardinality({ j \in contained : j <= i })] = ApiName(sel.cls, i)
            /\ \A k \in 1..Len(ReturnedNames) :
                  ReturnedNames[k] \notin {<<"a", "l", "l">>, <<"a", "l", "l", "_", "i", "n", "f", "o">>}
            /\ (sel.cls = "TransactionFields" /\ sel.value = 3) =>
                  sel.outcome.value[1] = 
                      <<"t", "r", "a", "n", "s", "a", "c", "t", "i", "o", "n", "_", "i", "n", "f", "o",
                        ",", "p", "a", "y", "e", "r", "_", "i", "n", "f", "o">>

C18_Witness ==
    /\ ParamValueReturned
    /\ sel.op = "selector" /\ sel.cls = "TransactionFields" /\ sel.value = 3
    /\ sel.multibit
    /\ ReturnedNames = <<<<"t", "r", "a", "n", "s", "a", "c", "t", "i", "o", "n", "_", "i", "n", "f", "o">>, 
                       <<"p", "a", "y", "e", "r", "_", "i", "n", "f", "o">>>>

\* C19: combine of a sequence that is not empty returns the union of the
\* bits of its elements, whatever their order and however often each
\* occurs; combine of None or of an empty sequence returns ALL.
C19_CombineIsUnion ==
    (sel.op = "combine" /\ sel.pc # "idle") =>
        IF sel.fields = None \/ sel.fields = Some(<<>>)
        THEN sel.value = Members(sel.cls)[Len(Members(sel.cls))].value
        ELSE \A i \in BasePlaces(sel.cls) :
                HasFlag(sel.value, i)
                    <=> \E n \in 1..Len(sel.fields[1]) : HasFlag(sel.fields[1][n], i)

C19_Witness ==
    /\ sel.op = "combine" /\ sel.cls = "TransactionFields"
    /\ sel.fields = Some(<<2, 1, 2>>)
    /\ sel.value = 3

\* The places of the members whose name is the argument but for case.
NamedBy(cls, arg) == { i \in 1..Len(Members(cls)) : Lower(Members(cls)[i].name) = Lower(arg) }

\* C20: from_arg returns the member whose name is the argument but for the
\* case of its letters, and raises ValueError when there is none; for a
\* base flag, param_value of what it returns is that flag's one API name.
C20_FromArgRoundTrip ==
    (sel.op = "from_arg" /\ sel.pc # "idle") =>
        /\ NamedBy(sel.cls, sel.arg) = {} <=> sel.pc = "raised"
        /\ sel.pc = "raised" =>
              sel.outcome = [kind |-> "ValueError",
                             value |-> <<[cls |-> sel.cls, arg |-> sel.arg]>>]
        /\ \A i \in NamedBy(sel.cls, sel.arg) :
              /\ sel.value = Members(sel.cls)[i].value
              /\ (ParamValueReturned /\ i \in BasePlaces(sel.cls)) =>
                    sel.outcome.value[1] = ApiName(sel.cls, i)

C20_Witness ==
    /\ sel.op = "from_arg" /\ sel.cls = "SubscriptionFields"
    /\ sel.arg = <<"P", "l", "A", "n">>
    /\ sel.value = 2
    /\ ParamValueReturned
    /\ sel.outcome.value[1] = <<"p", "l", "a", "n">>

IsBaseFieldDone == sel.pc = "done" /\ sel.outcome.kind # "str"

\* The number of flags in the value.
BitCount(value) == Cardinality({ i \in 1..7 : HasFlag(value, i) })

\* C21: for every flag value of SubscriptionFields and TransactionFields, a
\* single flag, a combination such as ALL, or the empty selector,
\* is_base_field returns true if and only if exactly one bit of the value
\* is set.
C21_BaseFieldIffOneBit ==
    IsBaseFieldDone =>
        sel.outcome = Result("bool", BitCount(sel.value) = 1)

\* is_base_field of the empty selector raises ValueError.
C21_Witness ==
    /\ IsBaseFieldDone
    /\ sel.op = "selector" /\ sel.cls = "TransactionFields" /\ sel.value = 0
    /\ sel.outcome = Result("ValueError", "math domain error")

-----------------------------------------------------------------------------
(* Properties of the mappings *)

\* The params mapping the method called handed to _iter_date_params.
PassedParams ==
    IF op = "get"
    THEN ("transaction_id" :> call.transaction_id) @@ ("fields" :> DefaultFields)
    ELSE ("fields" :> DefaultFields)

\* C22: every mapping the window generator yields holds each key of the
\* caller's extra parameters with its value unchanged, the two date keys
\* start_date and end_date, and no other key; the caller's mapping itself
\* is never modified by the generator.
C22_WindowKeys ==
    GenCalled =>
        /\ extra = PassedParams
        /\ \A i \in 1..Len(windows) :
              /\ DOMAIN windows[i] = DOMAIN PassedParams \cup {"start_date", "end_date"}
              /\ \A k \in DOMAIN PassedParams : windows[i][k] = PassedParams[k]
              /\ {"start_date", "end_date"} \cap DOMAIN PassedParams = {}

C22_Witness ==
    /\ op = "get"
    /\ Len(windows) = 2
    /\ DOMAIN windows[2] = {"transaction_id", "fields", "start_date", "end_date"}
    /\ windows[2]["transaction_id"] = "A"
    /\ extra = PassedParams
    /\ Len(requests) = 2

-----------------------------------------------------------------------------
(* Termination *)

\* One window more was yielded: a window remained, and the cursor moved
\* towards the far bound by 30 days or, if that is nearer, up to it.
WindowYielded ==
    Len(windows') = Len(windows) + 1 =>
        LET backward == Backward(gen.start_date, gen.end_date)
            moved == IF backward THEN gen.next_date.sec - gen'.next_date.sec
                     ELSE gen'.next_date.sec - gen.next_date.sec
        IN  /\ Pred(backward, gen.next_date, gen.end_date)
            /\ Pred(backward, gen.next_date, gen'.next_date)
            /\ ~Pred(backward, gen.end_date, gen'.next_date)
            /\ gen'.next_date = gen.end_date \/ moved = WindowSeconds
            /\ gen'.end_date = gen.end_date

GetEnded ==
    /\ op = "get"
    /\ \/ pc = "returned" /\ result.kind = "Transaction"
       \/ pc = "raised" /\ result.kind = "HTTPError"
       \/ pc = "raised" /\ result.kind = "ValueError" /\ GenExhausted

\* C23: for every pair of bounds, in either order, the window generator
\* yields finitely many windows, each moving its cursor 30 days towards the
\* far bound or up to it, and so get_transaction, each of whose requests
\* returns, always ends: with a Transaction, the not-found error or an
\* HTTP error.
C23_Terminates ==
    /\ [][WindowYielded]_vars
    /\ (op = "get") ~> GetEnded

C23_Witness ==
    /\ GetEnded
    /\ result.kind = "ValueError"
    /\ call.start_date = None /\ call.end_date = None
    /\ Len(windows) = 37
    /\ Len(requests) = 37

-----------------------------------------------------------------------------
(* Laziness of iter_transactions *)

RequestIssued == op = "iter" /\ requests' # requests

\* C24: iter_transactions is lazy. A request is issued only while the
\* consumer is asking for an item, so none before it asks for the first;
\* only when every element of the pages already fetched has been yielded to
\* it; and never once it has abandoned the iteration, which stays
\* abandoned.
C24_Lazy ==
    /\ [][RequestIssued => consumer = "waiting"]_vars
    /\ [][RequestIssued => Len(yielded) = Len(DetailsOf(responses))]_vars
    /\ [][consumer = "closed" => (requests' = requests /\ consumer' = "closed")]_vars

\* Abandoned within the first page of the first window, with a second
\* element and a second window left.
C24_Witness ==
    /\ op = "iter" /\ consumer = "closed"
    /\ Len(requests) = 1 /\ Len(yielded) = 1
    /\ Len(page.details) = 2 /\ page.index = 2
    /\ WindowRemains

-----------------------------------------------------------------------------
(* The direction of iter_transactions *)

\* Request j is for a later page of the window of the request before it.
NextPageOfSameWindow(j) ==
    SameDates(requests[j], requests[j - 1]) /\ requests[j].page # <<1>>

\* C25 as stated: iter_transactions runs the window generator forward for
\* every pair of arguments: the windows are requested oldest first, the
\* start_date of each request being the end_date of the request before it
\* (or the request being for the next page of the same window) and never
\* earlier than its start_date.
C25_AlwaysForward ==
    op = "iter" =>
        \A j \in 2..Len(requests) :
            \/ NextPageOfSameWindow(j)
            \/ /\ requests[j].start_date = requests[j - 1].end_date
               /\ requests[j].start_date >= requests[j - 1].start_date

IterBackward == DtGreater(call.start_date[1], call.end_date[1])

\* C25 as amended: iter_transactions runs the window generator in the
\* direction of its arguments. Given start_date <= end_date the windows are
\* requested oldest first, from start_date on, each request starting where
\* the one before it ended; given start_date > end_date they are requested
\* newest first, from start_date down, each request ending where the one
\* before it started. Either way start_date is not later than end_date
\* within a request.
C25_DirectionOfArguments ==
    op = "iter" =>
        /\ requests # <<>> =>
              requests[1][Key1(IterBackward)] = IsoFormat(call.start_date[1])
        /\ \A j \in 1..Len(requests) : requests[j].start_date <= requests[j].end_date
        /\ \A j \in 2..Len(requests) :
              \/ NextPageOfSameWindow(j)
              \/ IF IterBackward
                 THEN /\ requests[j].end_date = requests[j - 1].start_date
                      /\ requests[j].start_date <= requests[j - 1].start_date
                 ELSE /\ requests[j].start_date = requests[j - 1].end_date
                      /\ requests[j].end_date >= requests[j - 1].end_date
        /\ (pc = "done" /\ IsoFormat(call.start_date[1]) # IsoFormat(call.end_date[1])) =>
              /\ requests # <<>>
              /\ requests[Len(requests)][Key2(IterBackward)] = IsoFormat(call.end_date[1])

C25_Witness ==
    /\ op = "iter" /\ pc = "done" /\ IterBackward
    /\ Len(requests) = 2
    /\ requests[2].end_date = requests[1].start_date
    /\ requests[2].start_date < requests[1].start_date
    /\ requests[1].end_date = IsoFormat(call.start_date[1])

-----------------------------------------------------------------------------
(* The frame of the Transaction view *)

MappingCalled(name) == view.pc = "done" /\ view.method = name

\* What the methods of the view return is what those of the wrapped
\* mapping return: its length, its keys, its items and its equality.
ViewAgreesWithWrapped ==
    /\ MappingCalled("__len__") =>
          view.outcome = Result("int", Cardinality(DOMAIN view.response))
    /\ MappingCalled("__iter__") => view.outcome = Result("keys", DOMAIN view.response)
    /\ MappingCalled("__contains__") =>
          view.outcome = Result("bool", view.args.key \in DOMAIN view.response)
    /\ MappingCalled("__getitem__") =>
          IF view.args.key \in DOMAIN view.response
          THEN view.outcome = Result("value", view.response[view.args.key])
          ELSE view.outcome = Result("KeyError", view.args.key)
    /\ MappingCalled("get") =>
          IF view.args.key \in DOMAIN view.response
          THEN view.outcome = Result("value", view.response[view.args.key])
          ELSE view.outcome.kind = "None"
    /\ MappingCalled("__eq__") =>
          view.outcome =
              Result("bool", view.args.other.is_mapping
                                 /\ view.args.other.items = view.response)

\* C26: no operation on a Transaction view, whether it returns or raises,
\* changes the wrapped response; and len, the keys, membership, the items,
\* get and equality of the view are those of the wrapped mapping.
C26_ViewFrame ==
    /\ [][view'.response = view.response]_vars
    /\ [][(view.pc = "done" /\ view'.pc = "idle") =>
              [view' EXCEPT !.raised = FALSE] = NewView(view.response)]_vars
    /\ []ViewAgreesWithWrapped

\* After an operation that raised, the view is equal to the mapping it
\* wraps.
C26_Witness ==
    /\ MappingCalled("__eq__")
    /\ view.raised
    /\ view.args.other = [is_mapping |-> TRUE, items |-> view.response]
    /\ Cardinality(DOMAIN view.response) = 2
    /\ view.outcome = Result("bool", TRUE)

-----------------------------------------------------------------------------
(* Properties of the exception hook *)

\* The category of an error: an HTTP error is an auth failure (401, 403),
\* another client error (a status below 500) or server unavailable (a
\* status of 500 or above, or no response); an exception that is neither
\* an HTTP error nor an OS error is an internal error.
Category(exc) ==
    IF "HTTPError" \in ExceptionMro(exc.cls)
    THEN IF exc.response = None THEN "server unavailable"
         ELSE IF exc.response[1] \in {HttpUnauthorized, HttpForbidden} THEN "auth failure"
         ELSE IF exc.response[1] < HttpServerError THEN "client error"
         ELSE "server unavailable"
    ELSE IF "OSError" \in ExceptionMro(exc.cls) THEN "OS error"
    ELSE IF "KeyboardInterrupt" \in ExceptionMro(exc.cls) THEN "interrupt"
    ELSE "internal"

FourCategories == {"auth failure", "client error", "server unavailable", "internal"}

HookExited == hook.pc = "exited"

\* C27 as stated: the exception hook gives each of the four categories, auth
\* failure, other client error, server unavailable and internal error, an
\* exit code no error of another of the four gets.
C27_DistinctExitCodes ==
    (HookExited /\ Category(hook.exc[1]) \in FourCategories) =>
        /\ hook.outcome.kind = "SystemExit"
        /\ \A other \in Exceptions :
              (Category(other) \in FourCategories
                   /\ Category(other) # Category(hook.exc[1])) =>
                  ExitCode(other) # hook.outcome

\* The exit code of each category.
CategoryExitCode ==
    [c \in FourCategories |->
        IF c = "auth failure" THEN EX_NOPERM
        ELSE IF c = "server unavailable" THEN EX_UNAVAILABLE
        ELSE EX_SOFTWARE]

\* C27 as amended: the exception hook leaves by SystemExit with EX_NOPERM
\* for an auth failure (401, 403), EX_UNAVAILABLE for server unavailable
\* (a status of 500 or above, or no response) and EX_SOFTWARE both for
\* another client error (a status below 500) and for an internal error:
\* three exit codes, which tell an auth failure, server unavailable and the
\* pair of client and internal error from one another.
C27_ExitCodeByCategory ==
    (HookExited /\ Category(hook.exc[1]) \in FourCategories) =>
        /\ hook.outcome = Result("SystemExit", CategoryExitCode[Category(hook.exc[1])])
        /\ Len(hook.log) = (IF hook.debug THEN 2 ELSE 1)
        /\ hook.log[1].levelname = "CRITICAL"
        /\ \A other \in Exceptions :
              Category(other) \in FourCategories =>
                  (ExitCode(other) = hook.outcome
                       <=> CategoryExitCode[Category(other)]
                               = CategoryExitCode[Category(hook.exc[1])])
        /\ Cardinality({ CategoryExitCode[c] : c \in FourCategories }) = 3

\* A 404 leaves with EX_SOFTWARE, the exit code of an internal error.
C27_Witness ==
    /\ HookExited
    /\ hook.exc[1].cls = "HTTPError" /\ hook.exc[1].response = Some(404)
    /\ hook.outcome = Result("SystemExit", EX_SOFTWARE)
    /\ \E other \in Exceptions :
          other.cls = "ValueError" /\ ExitCode(other) = hook.outcome

-----------------------------------------------------------------------------
(* The page key *)

\* The request being sent is the first of its window: the pager is new.
FirstRequestOfWindow == op = "iter" /\ pager.st = "new" /\ requests' # requests

\* C28: in iter_transactions the page key the pager writes never gets into
\* the window generator's mapping: neither the mapping it holds nor any it
\* yielded has a page key, and the first request of every window asks for
\* page 1, whatever number of pages the window before had.
C28_PageKeyStaysInPager ==
    /\ [](op = "iter" =>
            /\ "page" \notin DOMAIN retval
            /\ "page" \notin DOMAIN extra
            /\ \A i \in 1..Len(windows) : "page" \notin DOMAIN windows[i]
            /\ \A j \in 1..Len(requests) : "page" \in DOMAIN requests[j])
    /\ [][FirstRequestOfWindow => requests'[Len(requests')].page = <<1>>]_vars

\* The first window had two pages; the second window's first request is
\* for page 1.
C28_Witness ==
    /\ op = "iter"
    /\ Len(windows) = 2 /\ Len(requests) = 3
    /\ requests[1].page = <<1>> /\ requests[2].page = <<2>> /\ requests[3].page = <<1>>
    /\ SameDates(requests[1], requests[2]) /\ ~SameDates(requests[2], requests[3])
    /\ "page" \notin DOMAIN retval

-----------------------------------------------------------------------------
(* The mappings yielded, read later *)

\* C29: a mapping the window generator yielded keeps the start_date and
\* end_date it had when it was yielded, after the generator is advanced or
\* exhausted: read afterwards, the mappings collected are the windows as
\* they were yielded.
C29_YieldedKeepsDates ==
    GenCalled =>
        \A i \in 1..Len(windows) : SameDates(WindowParams(retval, extra), windows[i])

\* Three windows were yielded; read after the generator is exhausted, each
\* of the three mappings holds the far bound as both of its dates.
C29_Witness ==
    /\ GenExhausted /\ GenForward
    /\ Len(windows) = 3
    /\ windows[1].start_date < windows[1].end_date
    /\ \A i \in 1..3 :
          /\ WindowParams(retval, extra).start_date = IsoFormat(gen.end_date)
          /\ WindowParams(retval, extra).end_date = IsoFormat(gen.end_date)

-----------------------------------------------------------------------------
(* The error _get_json raises *)

\* C30: for every response with a status of 400 or more, _get_json raises
\* the HTTP error itself whatever the body holds, a body without name or
\* message or a detail without issue or location included: logging the
\* error never puts another exception in its place.
C30_AlwaysHttpError ==
    (err.pc = "raised" /\ err.status >= HttpErrorFloor) =>
        err.outcome = Result("HTTPError", err.status)

\* A 400 whose body has no name: the KeyError of the format leaves
\* _get_json, and nothing is logged.
C30_Witness ==
    /\ err.pc = "raised" /\ err.status = 400
    /\ ~Has(err.body, "name") /\ Has(err.body, "message")
    /\ err.outcome = Result("KeyError", "name")
    /\ err.log = <<>>

====
